---- MODULE Spec2Model ----
(***************************************************************************)
(* Gold vs S&P 500 dashboard: the cache manager                            *)
(* (streamlit_app/src/cache_manager.py), the market-data fetcher           *)
(* (streamlit_app/src/data_fetcher.py), the processor and validator        *)
(* (streamlit_app/src/data_processor.py), the metrics of StatsCalculator   *)
(* (streamlit_app/src/utils.py) and the data collection page               *)
(* (src/data_fetcher.py) as state machines.                                *)
(*                                                                         *)
(* Time is counted in whole hours.  A Python dict is a function whose      *)
(* domain is its set of keys.  A timestamp string is a record: iso tells   *)
(* whether datetime.fromisoformat accepts it, t is the instant it names.   *)
(***************************************************************************)
EXTENDS Integers, Sequences, FiniteSets, TLC

\* ------------------------------------------------------------------ bounds
MaxNow == 48              \* the clock stops advancing here
TickHours == 12           \* one step of the clock
MaxDfRows == 2            \* rows of the largest DataFrame handed to save_cache
MaxSaveCalls == 3         \* save_cache calls the concurrent writers make in all
MaxFrameRows == 2         \* rows of the largest frame a download returns
MaxFetchCalls == 2        \* fetch_all calls made on one DataFetcher
MaxRows == 2              \* rows of the largest DataFrame handed to validate_data
LastDay == 5              \* the latest date of a row, in days
MaxValidateCalls == 2     \* validate_data calls made on one DataFrame
MaxScriptRuns == 2        \* runs of the page script in one session
MaxRawRows == 3           \* rows of the largest DataFrame handed to process_data
MaxProcessCalls == 2      \* process_data calls made on one DataFrame
MaxSeriesLen == 3         \* prices of the longest series handed to StatsCalculator
WeightSteps == 4          \* the sampled portfolio weights are multiples of 1/WeightSteps

\* ------------------------------------------------------- program constants
DefaultCacheDurationHours == 24
max_retries == 3
base_wait == 5
max_daily_change_pct == 10
max_gap_business_days == 2
expected_per_year == 252
periods == 252
risk_free_rate_pct == 2   \* risk_free_rate = 0.02

VARIABLES
    \* CacheManager: the three files of cache_dir, the configuration, the clock
    csv_cache, parquet_cache, metadata_file,
    cache_duration_hours,
    now,
    \* the last CacheManager call and what it returned
    lastOp, ret,
    \* history: the arguments of the last save_cache that returned True, while
    \* no failed save_cache and no clear_cache came after it
    lastSaved,
    \* history: clear_cache returned True and no save_cache returned True since
    cleared,
    \* two processes sharing cache_dir: where each stands in save_cache, the
    \* DataFrame it is saving and the number of its call
    wpc, wdf, wcall,
    \* history: the calls started so far, and the call that wrote each file
    ncalls, parquet_by, meta_by,
    \* DataFetcher: self.tickers, self.data, self.errors, self.start_date,
    \* self.end_date
    tickers, data, errors, start_date, end_date,
    \* fetch_all: where it stands, the index of its for loop, its two locals,
    \* and what the last call returned
    fpc, idx, raw_data, failed_tickers, fret,
    \* _fetch_with_retry: the attempt of its for loop, and what it returned
    attempt, fres,
    \* history: the downloads and sleeps of the running _fetch_with_retry call,
    \* how each ticker's call ended in this fetch_all, the fetch_all calls so far
    log, ended, nfetch,
    \* DataProcessor: the DataFrame handed to validate_data, the day
    \* datetime.today() falls on, self.data, what the last two validate_data
    \* calls returned, and the calls so far
    vdf, today, self_data, vret, vprev, vcalls,
    \* the page: st.session_state, the buttons of the running script run (or
    \* "rerun" when st.rerun() ended it), what the last fetch_and_process_data
    \* call returned, and the script runs so far
    session_state, ppc, pret, pruns,
    \* process_data: the DataFrame it is called with, what the last call
    \* returned, and the calls so far
    praw, pout, pcalls,
    \* StatsCalculator: the two price series at hand, and the last call of a
    \* metric with what it returned
    sprices, sout

cacheVars == <<csv_cache, parquet_cache, metadata_file, cache_duration_hours,
               now, lastOp, ret, lastSaved, cleared>>

concVars == <<wpc, wdf, wcall, ncalls, parquet_by, meta_by>>

fetchVars == <<tickers, data, errors, start_date, end_date, fpc, idx, raw_data, failed_tickers, fret,
               attempt, fres, log, ended, nfetch>>

validVars == <<vdf, today, self_data, vret, vprev, vcalls>>

pipeVars == <<session_state, ppc, pret, pruns>>

procVars == <<praw, pout, pcalls>>

statVars == <<sprices, sout>>

\* the processor and the page, which the cache manager and the fetcher on
\* their own never touch
pageVars == <<validVars, pipeVars, procVars, statVars>>

vars == <<cacheVars, concVars, fetchVars, pageVars>>

\* ------------------------------------------------------------ Python values
EmptyDict == [k \in {} |-> 0]

Get(d, k, default) == IF k \in DOMAIN d THEN d[k] ELSE default

\* dict.update: the keys of b replace those of a
DictUpdate(a, b) ==
    [k \in (DOMAIN a) \cup (DOMAIN b) |-> IF k \in DOMAIN b THEN b[k] ELSE a[k]]

\* datetime.isoformat() of the instant t
IsoFormat(t) == [iso |-> TRUE, t |-> t]

\* a string datetime.fromisoformat rejects ('' included)
NotIso == [iso |-> FALSE, t |-> 0]

\* datetime.fromisoformat(s): raises ValueError on a string that is no ISO date
FromIsoFormat(s) ==
    IF s.iso THEN [raised |-> FALSE, t |-> s.t] ELSE [raised |-> TRUE, t |-> 0]

\* a DataFrame is the sequence of its rows
DataFrames == {[i \in 1..n |-> i] : n \in 1..MaxDfRows}

NoneDf == [some |-> FALSE, df |-> <<>>]
SomeDf(df) == [some |-> TRUE, df |-> df]

\* ------------------------------------------------------------------- files
\* st: "absent", "corrupt" (exists, but a partial write: unreadable) or "ok"
AbsentFile == [st |-> "absent", df |-> <<>>, json |-> EmptyDict]
CorruptFile == [st |-> "corrupt", df |-> <<>>, json |-> EmptyDict]
DataFile(df) == [st |-> "ok", df |-> df, json |-> EmptyDict]
JsonFile(d) == [st |-> "ok", df |-> <<>>, json |-> d]

Exists(f) == f.st # "absent"

Files == [csv |-> csv_cache, parquet |-> parquet_cache, meta |-> metadata_file]

\* what the caller may pass as save_cache's metadata argument
MetadataArgs ==
    { EmptyDict,
      [quality_score |-> 90],
      [expires_at |-> IsoFormat(0)],
      [expires_at |-> NotIso] }

\* where a save_cache call may fail: nowhere, or on opening / while writing
\* one of its three files
SaveFaults == {"none", "csv_open", "csv_write", "parquet_open", "parquet_write",
               "meta_open", "meta_write"}

\* where a clear_cache call may fail: nowhere, or in one of its os.remove calls
ClearFaults == {"none", "csv", "parquet", "meta"}

\* --------------------------------------------------------------- save_cache
\* the record save_cache builds before it merges the caller's metadata
CacheMetadata(df, t, dur) ==
    [cached_at |-> IsoFormat(t),
     rows |-> Len(df),
     cache_duration_hours |-> dur,
     expires_at |-> IsoFormat(t + dur)]

\* "if metadata: cache_metadata.update(metadata)"
MergedMetadata(df, metadata, t, dur) ==
    IF metadata # EmptyDict
    THEN DictUpdate(CacheMetadata(df, t, dur), metadata)
    ELSE CacheMetadata(df, t, dur)

\* df.to_csv(self.csv_cache)
WriteCsv(f, df, fault) ==
    CASE fault = "csv_open" -> [raised |-> TRUE, files |-> f]
      [] fault = "csv_write" -> [raised |-> TRUE, files |-> [f EXCEPT !.csv = CorruptFile]]
      [] OTHER -> [raised |-> FALSE, files |-> [f EXCEPT !.csv = DataFile(df)]]

\* faulty variant: a Parquet file already there is kept instead of being rewritten
WriteParquetKeepsExisting(f, df, fault) ==
    CASE fault = "parquet_open" -> [raised |-> TRUE, files |-> f]
      [] fault = "parquet_write" -> [raised |-> TRUE, files |-> [f EXCEPT !.parquet = CorruptFile]]
      [] OTHER -> [raised |-> FALSE,
                   files |-> IF Exists(f.parquet) THEN f
                             ELSE [f EXCEPT !.parquet = DataFile(df)]]

\* df.to_parquet(self.parquet_cache)
WriteParquet(f, df, fault) ==
    CASE fault = "parquet_open" -> [raised |-> TRUE, files |-> f]
      [] fault = "parquet_write" -> [raised |-> TRUE, files |-> [f EXCEPT !.parquet = CorruptFile]]
      [] OTHER -> [raised |-> FALSE, files |-> [f EXCEPT !.parquet = DataFile(df)]]

\* open(self.metadata_file, 'w') and json.dump
WriteMetadata(f, d, fault) ==
    CASE fault = "meta_open" -> [raised |-> TRUE, files |-> f]
      [] fault = "meta_write" -> [raised |-> TRUE, files |-> [f EXCEPT !.meta = CorruptFile]]
      [] OTHER -> [raised |-> FALSE, files |-> [f EXCEPT !.meta = JsonFile(d)]]

\* save_cache(df, metadata) at time t: the files it leaves and its return value
SaveCacheResult(f, df, metadata, t, dur, fault) ==
    LET c == WriteCsv(f, df, fault)
        p == WriteParquet(c.files, df, fault)
        m == WriteMetadata(p.files, MergedMetadata(df, metadata, t, dur), fault)
    IN  IF c.raised THEN [ok |-> FALSE, files |-> c.files]
        ELSE IF p.raised THEN [ok |-> FALSE, files |-> p.files]
        ELSE IF m.raised THEN [ok |-> FALSE, files |-> m.files]
        ELSE [ok |-> TRUE, files |-> m.files]

\* --------------------------------------------------- is_cache_valid, load_cache
\* json.load of the metadata file
JsonLoad(file) ==
    IF file.st = "ok" THEN [raised |-> FALSE, json |-> file.json]
    ELSE [raised |-> TRUE, json |-> EmptyDict]

\* pd.read_parquet
ReadParquet(file) ==
    IF file.st = "ok" THEN [raised |-> FALSE, df |-> file.df]
    ELSE [raised |-> TRUE, df |-> <<>>]

\* is_cache_valid(metadata): a parse error is caught and gives False
IsCacheValid(metadata, t) ==
    LET e == FromIsoFormat(Get(metadata, "expires_at", NotIso))
    IN  IF e.raised THEN FALSE ELSE t < e.t

Miss(reason) ==
    [data |-> NoneDf, is_valid |-> FALSE, metadata |-> EmptyDict,
     reason |-> reason, raised |-> FALSE]

\* the body of load_cache's try block; raised: an exception left the block
LoadCacheTry(f, t) ==
    IF ~Exists(f.parquet) THEN Miss("No cache file found")
    ELSE IF ~Exists(f.meta) THEN Miss("No cache metadata found")
    ELSE LET j == JsonLoad(f.meta)
             p == ReadParquet(f.parquet)
         IN  IF j.raised THEN [Miss("json.load") EXCEPT !.raised = TRUE]
             ELSE IF ~IsCacheValid(j.json, t) THEN Miss("Cache expired")
             ELSE IF p.raised THEN [Miss("read_parquet") EXCEPT !.raised = TRUE]
             ELSE [data |-> SomeDf(p.df), is_valid |-> TRUE, metadata |-> j.json,
                   reason |-> "", raised |-> FALSE]

\* load_cache(): "except Exception" turns what the body raises into a miss
LoadCacheResult(f, t) ==
    LET r == LoadCacheTry(f, t)
    IN  IF r.raised THEN Miss("Error loading cache") ELSE r

\* -------------------------------------------------------------- clear_cache
\* faulty variant: the metadata record is left behind
ClearCacheKeepsMetadata(f, fault) ==
    LET c == IF Exists(f.csv) /\ fault = "csv"
             THEN [raised |-> TRUE, files |-> f]
             ELSE [raised |-> FALSE, files |-> [f EXCEPT !.csv = AbsentFile]]
        p == IF Exists(c.files.parquet) /\ fault = "parquet"
             THEN [raised |-> TRUE, files |-> c.files]
             ELSE [raised |-> FALSE, files |-> [c.files EXCEPT !.parquet = AbsentFile]]
    IN  IF c.raised THEN [ok |-> FALSE, files |-> c.files]
        ELSE IF p.raised THEN [ok |-> FALSE, files |-> p.files]
        ELSE [ok |-> TRUE, files |-> p.files]

\* the three "if os.path.exists: os.remove" of clear_cache, in order; an
\* os.remove that raises leaves its file and ends the call with False
ClearCacheResult(f, fault) ==
    LET c == IF Exists(f.csv) /\ fault = "csv"
             THEN [raised |-> TRUE, files |-> f]
             ELSE [raised |-> FALSE, files |-> [f EXCEPT !.csv = AbsentFile]]
        p == IF Exists(c.files.parquet) /\ fault = "parquet"
             THEN [raised |-> TRUE, files |-> c.files]
             ELSE [raised |-> FALSE, files |-> [c.files EXCEPT !.parquet = AbsentFile]]
        m == IF Exists(p.files.meta) /\ fault = "meta"
             THEN [raised |-> TRUE, files |-> p.files]
             ELSE [raised |-> FALSE, files |-> [p.files EXCEPT !.meta = AbsentFile]]
    IN  IF c.raised THEN [ok |-> FALSE, files |-> c.files]
        ELSE IF p.raised THEN [ok |-> FALSE, files |-> p.files]
        ELSE IF m.raised THEN [ok |-> FALSE, files |-> m.files]
        ELSE [ok |-> TRUE, files |-> m.files]

\* ------------------------------------------------ get_cache_age, get_cache_info
\* get_cache_age(metadata): None when a timestamp does not parse
GetCacheAge(metadata, t) ==
    LET c == FromIsoFormat(Get(metadata, "cached_at", NotIso))
        e == FromIsoFormat(Get(metadata, "expires_at", NotIso))
    IN  IF c.raised \/ e.raised
        THEN [some |-> FALSE, age_hours |-> 0, time_remaining_hours |-> 0,
              is_valid |-> FALSE]
        ELSE [some |-> TRUE, age_hours |-> t - c.t,
              time_remaining_hours |-> IF e.t - t > 0 THEN e.t - t ELSE 0,
              is_valid |-> t < e.t]

NoCacheInfo(message) ==
    [exists |-> FALSE, message |-> message, metadata |-> EmptyDict,
     is_valid |-> FALSE, age_info |-> GetCacheAge(EmptyDict, 0)]

\* faulty variant: a cache whose Parquet file cannot be read is reported missing
GetCacheInfoReadsDataset(f, t) ==
    IF ~Exists(f.meta) \/ ReadParquet(f.parquet).raised THEN NoCacheInfo("No cache found")
    ELSE LET j == JsonLoad(f.meta)
         IN  IF j.raised THEN NoCacheInfo("error")
             ELSE [exists |-> TRUE, message |-> "", metadata |-> j.json,
                   is_valid |-> IsCacheValid(j.json, t),
                   age_info |-> GetCacheAge(j.json, t)]

\* get_cache_info(): reads the metadata file only
GetCacheInfoResult(f, t) ==
    IF ~Exists(f.meta) THEN NoCacheInfo("No cache found")
    ELSE LET j == JsonLoad(f.meta)
         IN  IF j.raised THEN NoCacheInfo("error")
             ELSE [exists |-> TRUE, message |-> "", metadata |-> j.json,
                   is_valid |-> IsCacheValid(j.json, t),
                   age_info |-> GetCacheAge(j.json, t)]

\* ------------------------------------------------------------------ actions
\* ret.removed: how many files the last clear_cache found and removed
NoRet == [ok |-> FALSE, removed |-> 0, load |-> Miss(""), info |-> NoCacheInfo("")]

\* lastSaved.over: that save replaced a readable dataset holding other rows
NoSaved == [fresh |-> FALSE, df |-> <<>>, metadata |-> EmptyDict, at |-> 0,
            over |-> FALSE]

ExistingFiles(f) ==
    {n \in {"csv", "parquet", "meta"} : Exists(f[n])}

CacheInit ==
    /\ csv_cache = AbsentFile
    /\ parquet_cache = AbsentFile
    /\ metadata_file = AbsentFile
    /\ cache_duration_hours \in {TickHours, DefaultCacheDurationHours}
    /\ now = 0
    /\ lastOp = "init"
    /\ ret = NoRet
    /\ lastSaved = NoSaved
    /\ cleared = FALSE

SetFiles(f) ==
    /\ csv_cache' = f.csv
    /\ parquet_cache' = f.parquet
    /\ metadata_file' = f.meta

SaveCache(df, metadata, fault) ==
    LET r == SaveCacheResult(Files, df, metadata, now, cache_duration_hours, fault)
    IN  /\ SetFiles(r.files)
        /\ lastOp' = "save_cache"
        /\ ret' = [NoRet EXCEPT !.ok = r.ok]
        /\ lastSaved' = IF r.ok
                        THEN [fresh |-> TRUE, df |-> df, metadata |-> metadata,
                              at |-> now,
                              over |-> (parquet_cache.st = "ok" /\ parquet_cache.df # df)]
                        ELSE NoSaved
        /\ cleared' = (cleared /\ ~r.ok)
        /\ UNCHANGED <<cache_duration_hours, now>>

LoadCache ==
    /\ lastOp' = "load_cache"
    /\ ret' = [NoRet EXCEPT !.load = LoadCacheResult(Files, now)]
    /\ UNCHANGED <<csv_cache, parquet_cache, metadata_file, cache_duration_hours,
                   now, lastSaved, cleared>>

ClearCache(fault) ==
    LET r == ClearCacheResult(Files, fault)
    IN  /\ SetFiles(r.files)
        /\ lastOp' = "clear_cache"
        /\ ret' = [NoRet EXCEPT !.ok = r.ok,
                               !.removed = Cardinality(ExistingFiles(Files) \ ExistingFiles(r.files))]
        /\ lastSaved' = NoSaved
        /\ cleared' = (cleared \/ r.ok)
        /\ UNCHANGED <<cache_duration_hours, now>>

GetCacheInfo ==
    /\ lastOp' = "get_cache_info"
    /\ ret' = [NoRet EXCEPT !.info = GetCacheInfoResult(Files, now)]
    /\ UNCHANGED <<csv_cache, parquet_cache, metadata_file, cache_duration_hours,
                   now, lastSaved, cleared>>

\* the clock advances between two calls
Tick ==
    /\ now + TickHours <= MaxNow
    /\ now' = now + TickHours
    /\ lastOp' = "tick"
    /\ ret' = NoRet
    /\ UNCHANGED <<csv_cache, parquet_cache, metadata_file, cache_duration_hours,
                   lastSaved, cleared>>

\* ------------------------------------------- two processes in save_cache
Writers == {"p1", "p2"}

ConcInit ==
    /\ wpc = [w \in Writers |-> "idle"]
    /\ wdf = [w \in Writers |-> <<>>]
    /\ wcall = [w \in Writers |-> 0]
    /\ ncalls = 0
    /\ parquet_by = 0
    /\ meta_by = 0

\* process w enters save_cache(df)
WriterCall(w, df) ==
    /\ wpc[w] = "idle"
    /\ ncalls < MaxSaveCalls
    /\ ncalls' = ncalls + 1
    /\ wpc' = [wpc EXCEPT ![w] = "to_csv"]
    /\ wdf' = [wdf EXCEPT ![w] = df]
    /\ wcall' = [wcall EXCEPT ![w] = ncalls + 1]
    /\ UNCHANGED <<csv_cache, parquet_cache, metadata_file, parquet_by, meta_by>>

\* df.to_csv
WriterToCsv(w) ==
    /\ wpc[w] = "to_csv"
    /\ SetFiles(WriteCsv(Files, wdf[w], "none").files)
    /\ wpc' = [wpc EXCEPT ![w] = "to_parquet"]
    /\ UNCHANGED <<wdf, wcall, ncalls, parquet_by, meta_by>>

\* df.to_parquet
WriterToParquet(w) ==
    /\ wpc[w] = "to_parquet"
    /\ SetFiles(WriteParquet(Files, wdf[w], "none").files)
    /\ parquet_by' = wcall[w]
    /\ wpc' = [wpc EXCEPT ![w] = "metadata"]
    /\ UNCHANGED <<wdf, wcall, ncalls, meta_by>>

\* the metadata record is built, stamped and written; save_cache returns True
WriterMetadata(w) ==
    /\ wpc[w] = "metadata"
    /\ SetFiles(WriteMetadata(Files,
                   MergedMetadata(wdf[w], EmptyDict, now, cache_duration_hours),
                   "none").files)
    /\ meta_by' = wcall[w]
    /\ wpc' = [wpc EXCEPT ![w] = "idle"]
    /\ UNCHANGED <<wdf, wcall, ncalls, parquet_by>>

ConcTick ==
    /\ now + TickHours <= MaxNow
    /\ now' = now + TickHours
    /\ UNCHANGED <<csv_cache, parquet_cache, metadata_file, concVars>>

\* ------------------------------------------------------------- DataFetcher
Symbols == {"GLD", "SPY"}

\* self.tickers: the configured symbols, each once, in any order
TickerLists ==
    {<<>>} \cup {<<a>> : a \in Symbols}
           \cup {<<a, b>> : <<a, b>> \in {x \in Symbols \X Symbols : x[1] # x[2]}}

\* what one yf.download call does: it returns None, it returns a frame of
\* `rows` rows of which `nans` have no Close price, or it raises an error
\* whose message holds one of the rate-limit keywords or none of them
NoneReturned == [kind |-> "none", rows |-> 0, nans |-> 0, rate_limit |-> FALSE]
Frame(rows, nans) == [kind |-> "frame", rows |-> rows, nans |-> nans, rate_limit |-> FALSE]
Raised(keyword) == [kind |-> "error", rows |-> 0, nans |-> 0, rate_limit |-> keyword]

DownloadOutcomes ==
    {NoneReturned}
    \cup {Frame(r, n) : <<r, n>> \in {x \in (0..MaxFrameRows) \X (0..MaxFrameRows) : x[2] <= x[1]}}
    \cup {Raised(k) : k \in BOOLEAN}

\* "any(keyword in error_str for keyword in [...])"
IsRateLimit(out) == out.kind = "error" /\ out.rate_limit

\* 2 ** n
RECURSIVE Pow2(_)
Pow2(n) == IF n <= 0 THEN 1 ELSE 2 * Pow2(n - 1)

\* one pass of the for loop of _fetch_with_retry, with attempt a and the
\* download ending as out: the loop returns close_data (of `rows` rows),
\* returns None, re-raises, or goes on to the next attempt after sleeping
\* `wait` seconds (0: no sleep)
RetryPass(a, out) ==
    IF out.kind = "none" \/ (out.kind = "frame" /\ out.rows = 0)
    THEN [next |-> "return_none", rows |-> 0, wait |-> 0]
    ELSE IF out.kind = "frame"
    THEN IF out.rows - out.nans = 0
         THEN [next |-> "return_none", rows |-> 0, wait |-> 0]
         ELSE [next |-> "return_df", rows |-> out.rows - out.nans, wait |-> 0]
    ELSE IF IsRateLimit(out) /\ a < max_retries - 1
    THEN [next |-> "continue", rows |-> 0, wait |-> base_wait * Pow2(a)]
    ELSE IF a = max_retries - 1
    THEN [next |-> "raise", rows |-> 0, wait |-> 0]
    ELSE [next |-> "continue", rows |-> 0, wait |-> 0]

\* faulty variant: the call of _fetch_with_retry stands outside any try
CaughtByNothing(r) == FALSE

\* "except Exception as e" of fetch_all catches what _fetch_with_retry raises
CaughtByFetchAll(r) == r.kind = "raise"

\* "if df is not None and not df.empty"
IsSuccess(r) == r.kind = "df" /\ r.rows > 0

\* the entry fetch_all appends to failed_tickers
FailureEntry(ticker, r) ==
    [ticker |-> ticker,
     message |-> IF r.kind = "raise" THEN "Failed to fetch" ELSE "No data found"]

NoneData == [some |-> FALSE, map |-> EmptyDict]
SomeData(m) == [some |-> TRUE, map |-> m]

\* faulty variant: any failed ticker fails the whole batch
FetchAllReturnAllOrNothing(raw, failed) ==
    IF raw = EmptyDict \/ failed # <<>>
    THEN [data |-> NoneData, failed |-> failed, raised |-> FALSE]
    ELSE [data |-> SomeData(raw), failed |-> failed, raised |-> FALSE]

\* the end of fetch_all: "if not raw_data: ... return None, failed_tickers"
FetchAllReturn(raw, failed) ==
    IF raw = EmptyDict
    THEN [data |-> NoneData, failed |-> failed, raised |-> FALSE]
    ELSE [data |-> SomeData(raw), failed |-> failed, raised |-> FALSE]

NoFres == [kind |-> "none", rows |-> 0]
NoFret == [data |-> NoneData, failed |-> <<>>, raised |-> FALSE]

FetchInit ==
    /\ tickers \in TickerLists
    /\ data = NoneData
    /\ errors = <<>>
    /\ fpc = "idle"
    /\ idx = 0
    /\ raw_data = EmptyDict
    /\ failed_tickers = <<>>
    /\ fret = NoFret
    /\ attempt = 0
    /\ fres = NoFres
    /\ log = <<>>
    /\ ended = EmptyDict
    /\ nfetch = 0

\* fetch_all is called: its locals are fresh
FetchAllCall ==
    /\ fpc \in {"idle", "done"}
    /\ nfetch < MaxFetchCalls
    /\ nfetch' = nfetch + 1
    /\ fpc' = "for"
    /\ idx' = 1
    /\ raw_data' = EmptyDict
    /\ failed_tickers' = <<>>
    /\ ended' = EmptyDict
    /\ log' = <<>>
    /\ fres' = NoFres
    /\ attempt' = 0
    /\ UNCHANGED <<tickers, start_date, end_date, data, errors, fret>>

\* the for loop takes the next ticker and calls _fetch_with_retry
FetchWithRetryCall ==
    /\ fpc = "for"
    /\ idx <= Len(tickers)
    /\ fpc' = "attempt"
    /\ attempt' = 0
    /\ log' = <<>>
    /\ fres' = NoFres
    /\ UNCHANGED <<tickers, start_date, end_date, data, errors, idx, raw_data, failed_tickers, fret,
                   ended, nfetch>>

\* a date string handed to the constructor, or None
NoDate == [some |-> FALSE, day |-> 0]
SomeDate(d) == [some |-> TRUE, day |-> d]

\* start_date and end_date as a caller may give them
StartDateArgs == {NoDate, SomeDate(0)}
EndDateArgs == {NoDate, SomeDate(LastDay)}

\* "if self.start_date and self.end_date: ... else: kwargs['period'] = '1y'"
DownloadKwargs(start, end, day) ==
    IF start.some /\ end.some
    THEN [kind |-> "range", start |-> start.day, end |-> end.day, period |-> "none"]
    ELSE [kind |-> "period", start |-> 0, end |-> 0, period |-> "1y"]

DownloadEvent(a, out) ==
    [ev |-> "download", attempt |-> a, out |-> out, wait |-> 0,
     request |-> DownloadKwargs(start_date, end_date, today)]
SleepEvent(a, out, w) ==
    [ev |-> "sleep", attempt |-> a, out |-> out, wait |-> w,
     request |-> DownloadKwargs(start_date, end_date, today)]

\* DataFetcher(tickers=config.TICKERS, start_date=config.START_DATE,
\* end_date=None), as the page constructs it
PageFetcher ==
    /\ start_date = SomeDate(0)
    /\ end_date = NoDate

\* one pass of the retry loop: the download, and what the loop does with it
DownloadAttempt(out) ==
    LET p == RetryPass(attempt, out)
        slept == IF p.wait > 0 THEN <<SleepEvent(attempt, out, p.wait)>> ELSE <<>>
        r == CASE p.next = "return_df" -> [kind |-> "df", rows |-> p.rows]
               [] p.next = "raise" -> [kind |-> "raise", rows |-> 0]
               [] OTHER -> [kind |-> "none", rows |-> 0]
    IN  /\ fpc = "attempt"
        /\ attempt < max_retries
        /\ log' = Append(log, DownloadEvent(attempt, out)) \o slept
        /\ IF p.next = "continue" /\ attempt + 1 < max_retries
           THEN /\ attempt' = attempt + 1
                /\ UNCHANGED <<fpc, fres, ended>>
           ELSE /\ fpc' = "returned"
                /\ fres' = r
                /\ ended' = [t \in (DOMAIN ended) \cup {tickers[idx]} |->
                                IF t = tickers[idx] THEN out ELSE ended[t]]
                /\ UNCHANGED attempt
        /\ UNCHANGED <<tickers, start_date, end_date, data, errors, idx, raw_data, failed_tickers, fret,
                       nfetch>>

\* the body of fetch_all's for loop after _fetch_with_retry came back
TickerHandled ==
    /\ fpc = "returned"
    /\ IF fres.kind = "raise" /\ ~CaughtByFetchAll(fres)
       THEN /\ fpc' = "done"
            /\ fret' = [data |-> NoneData, failed |-> <<>>, raised |-> TRUE]
            /\ UNCHANGED <<idx, raw_data, failed_tickers>>
       ELSE /\ fpc' = "for"
            /\ idx' = idx + 1
            /\ IF IsSuccess(fres)
               THEN /\ raw_data' = [t \in (DOMAIN raw_data) \cup {tickers[idx]} |->
                                       IF t = tickers[idx] THEN fres.rows ELSE raw_data[t]]
                    /\ UNCHANGED failed_tickers
               ELSE /\ failed_tickers' = Append(failed_tickers, FailureEntry(tickers[idx], fres))
                    /\ UNCHANGED raw_data
            /\ UNCHANGED fret
    /\ UNCHANGED <<tickers, start_date, end_date, data, errors, attempt, fres, log, ended, nfetch>>

\* the for loop is over: self.data and self.errors are set, fetch_all returns
FetchAllDone ==
    /\ fpc = "for"
    /\ idx > Len(tickers)
    /\ fpc' = "done"
    /\ fret' = FetchAllReturn(raw_data, failed_tickers)
    /\ data' = FetchAllReturn(raw_data, failed_tickers).data
    /\ errors' = failed_tickers
    /\ UNCHANGED <<tickers, start_date, end_date, idx, raw_data, failed_tickers, attempt, fres, log,
                   ended, nfetch>>

\* ----------------------------------------------- DataProcessor.validate_data
\* a price cell: a float, or NaN
NaN == [na |-> TRUE, v |-> 0]
Price(v) == [na |-> FALSE, v |-> v]

PriceCells == {NaN} \cup {Price(v) : v \in {-1, 0, 1, 2}}

\* the rows of the DataFrames drawn: a date (datetime64, counted in days), a
\* gold price and an sp500 price; one of the two prices is 1 or both are equal
DataRows ==
    {[date |-> d, gold |-> g, sp500 |-> s] :
        <<d, g, s>> \in {x \in {0, 2, LastDay} \X PriceCells \X PriceCells :
                             x[2] = x[3] \/ x[2] = Price(1) \/ x[3] = Price(1)}}

\* the DataFrames handed to validate_data: typed as process_data leaves them,
\* and not empty (on an empty frame check 10 raises: int() of a NaN)
ValidatedFrames ==
    UNION {[1..n -> DataRows] : n \in 1..MaxRows}

Column(df, c) == [i \in 1..Len(df) |-> df[i][c]]

Abs(x) == IF x < 0 THEN -x ELSE x

\* Series.notna().sum() and Series.isna().sum()
NotNaCount(col) == Cardinality({i \in 1..Len(col) : ~col[i].na})
IsNaCount(col) == Cardinality({i \in 1..Len(col) : col[i].na})

\* check 1: "(df['gold'] < 0).any() or (df['sp500'] < 0).any()"; NaN < 0 is False
AnyNegative(col) == \E i \in 1..Len(col) : ~col[i].na /\ col[i].v < 0

\* check 2: "df['date'] > datetime.today()": a row dated at midnight of a day
\* after the one datetime.today() falls on
FutureDates(df, day) == {i \in 1..Len(df) : df[i].date > day}

\* Series.pct_change() pads a NaN with the last price before it
RECURSIVE Padded(_, _)
Padded(col, i) ==
    IF i = 0 THEN NaN
    ELSE IF ~col[i].na THEN col[i]
    ELSE Padded(col, i - 1)

\* check 3: "(col.pct_change().abs() * 100 > max_change).sum()"; x / 0 is inf
\* (above every threshold), 0 / 0 and a change from or to NaN are NaN (above
\* none).  The prices drawn never change by max_change exactly.
Outliers(col, max_change) ==
    Cardinality({i \in 2..Len(col) :
        LET a == Padded(col, i - 1)
            b == Padded(col, i)
        IN  /\ ~a.na /\ ~b.na
            /\ IF a.v = 0 THEN b.v # 0
               ELSE Abs(b.v - a.v) * 100 > max_change * Abs(a.v)})

\* check 4: "(df['date'].diff().dt.days > max_gap).sum()"
Gaps(df, max_gap) ==
    Cardinality({i \in 2..Len(df) : df[i].date - df[i - 1].date > max_gap})

\* check 6: "df['date'].duplicated().sum()"
Duplicates(df) ==
    Cardinality({i \in 1..Len(df) : \E j \in 1..(i - 1) : df[j].date = df[i].date})

\* check 7: "pd.to_numeric(col, errors='coerce').notna().sum() == len(df)"
AllNumeric(col) == NotNaCount(col) = Len(col)

\* check 8: pd.to_datetime(df['date']) of a datetime64 column does not raise
ToDatetimeRaises(col) == FALSE

\* "(df['date'].max() - df['date'].min()).days"
RECURSIVE MaxDate(_, _)
MaxDate(df, i) ==
    IF i = 1 THEN df[1].date
    ELSE IF df[i].date > MaxDate(df, i - 1) THEN df[i].date ELSE MaxDate(df, i - 1)

RECURSIVE MinDate(_, _)
MinDate(df, i) ==
    IF i = 1 THEN df[1].date
    ELSE IF df[i].date < MinDate(df, i - 1) THEN df[i].date ELSE MinDate(df, i - 1)

SpanDays(df) == MaxDate(df, Len(df)) - MinDate(df, Len(df))

\* check 10: "int(expected_per_year * years)" with years = days / 365.25
ExpectedTotal(df) == (expected_per_year * SpanDays(df) * 100) \div 36525

\* check 10: "trading_ratio < 0.95" with trading_ratio = len(df) / expected_total
\* if expected_total > 0 else 0
TradingRatioLow(df) ==
    IF ExpectedTotal(df) > 0
    THEN Len(df) * 100 < 95 * ExpectedTotal(df)
    ELSE TRUE

Passed(name) == [name |-> name, verdict |-> "passed", details |-> <<>>]
Failed(name, details) == [name |-> name, verdict |-> "failed", details |-> details]
Warning(name, details) == [name |-> name, verdict |-> "warning", details |-> details]

\* a check that leaves no entry in results['details']
NoDetails == <<>>

\* the ten checks in the order validate_data runs them; details holds the
\* numbers the check formats into results['details'][check_name]
Checks(df, day) ==
    LET gold == Column(df, "gold")
        sp500 == Column(df, "sp500")
    IN  << IF AnyNegative(gold) \/ AnyNegative(sp500)
           THEN Failed("No negative prices", NoDetails)
           ELSE Passed("No negative prices"),
           IF FutureDates(df, day) # {}
           THEN Failed("No future dates", <<Cardinality(FutureDates(df, day))>>)
           ELSE Passed("No future dates"),
           IF Outliers(gold, max_daily_change_pct) > 0
              \/ Outliers(sp500, max_daily_change_pct) > 0
           THEN Warning("Reasonable daily price changes (max 10%)",
                        <<Outliers(gold, max_daily_change_pct),
                          Outliers(sp500, max_daily_change_pct),
                          max_daily_change_pct>>)
           ELSE Passed("Reasonable daily price changes (max 10%)"),
           IF Gaps(df, max_gap_business_days) > 0
           THEN Warning("Complete date range (no gaps > 2 business days)",
                        <<Gaps(df, max_gap_business_days), max_gap_business_days>>)
           ELSE Passed("Complete date range (no gaps > 2 business days)"),
           IF NotNaCount(gold) # NotNaCount(sp500)
           THEN Failed("Same number of records for both assets",
                       <<NotNaCount(gold), NotNaCount(sp500)>>)
           ELSE Passed("Same number of records for both assets"),
           IF Duplicates(df) > 0
           THEN Failed("No duplicate dates", <<Duplicates(df)>>)
           ELSE Passed("No duplicate dates"),
           IF ~(AllNumeric(gold) /\ AllNumeric(sp500))
           THEN Failed("Prices are numeric", NoDetails)
           ELSE Passed("Prices are numeric"),
           IF ToDatetimeRaises(Column(df, "date"))
           THEN Failed("Date format is consistent", NoDetails)
           ELSE Passed("Date format is consistent"),
           IF IsNaCount(gold) > 0 \/ IsNaCount(sp500) > 0
           THEN Warning("No NULL values (or properly handled)",
                        <<IsNaCount(gold), IsNaCount(sp500)>>)
           ELSE Passed("No NULL values (or properly handled)"),
           IF TradingRatioLow(df)
           THEN Warning("Data matches expected trading days",
                        <<ExpectedTotal(df), Len(df)>>)
           ELSE Passed("Data matches expected trading days") >>

\* results['passed'], results['failed'] or results['warnings']: the names of
\* the checks with that verdict, in the order they were appended
RECURSIVE NamesWith(_, _, _)
NamesWith(checks, verdict, i) ==
    IF i = 0 THEN <<>>
    ELSE IF checks[i].verdict = verdict
    THEN Append(NamesWith(checks, verdict, i - 1), checks[i].name)
    ELSE NamesWith(checks, verdict, i - 1)

\* results['details']: an entry for each check that wrote one
DetailsOf(checks) ==
    LET with == {i \in 1..Len(checks) : checks[i].details # NoDetails}
    IN  [name \in {checks[i].name : i \in with} |->
            (CHOOSE i \in with : checks[i].name = name)]

Min(a, b) == IF a < b THEN a ELSE b
Max(a, b) == IF a > b THEN a ELSE b

\* faulty variant: a warning costs as much as a failed check
QualityScoreFlat(nfailed, nwarnings) ==
    Min(100, Max(0, 100 - nfailed * 10 - nwarnings * 10))

\* "quality_score = max(0, 100 - failure_penalty - warning_penalty)" and then
\* "min(100, quality_score)"
QualityScore(nfailed, nwarnings) ==
    Min(100, Max(0, 100 - nfailed * 10 - nwarnings * 2))

\* validate_data(df) on the day `day`: (is_valid, results, quality_score)
ValidateDataResult(df, day) ==
    LET checks == Checks(df, day)
        passed == NamesWith(checks, "passed", Len(checks))
        failed == NamesWith(checks, "failed", Len(checks))
        warnings == NamesWith(checks, "warning", Len(checks))
        quality_score == QualityScore(Len(failed), Len(warnings))
    IN  [is_valid |-> (Len(failed) = 0),
         results |-> [passed |-> passed,
                      failed |-> failed,
                      warnings |-> warnings,
                      details |-> [name \in DOMAIN DetailsOf(checks) |->
                                      checks[DetailsOf(checks)[name]].details],
                      summary |-> [total_checks |-> Len(passed) + Len(failed),
                                   passed |-> Len(passed),
                                   failed |-> Len(failed),
                                   warnings |-> Len(warnings),
                                   quality_score |-> quality_score]],
         quality_score |-> quality_score]

NoVret == [called |-> FALSE, day |-> 0, is_valid |-> FALSE,
           results |-> [passed |-> <<>>, failed |-> <<>>, warnings |-> <<>>,
                        details |-> EmptyDict,
                        summary |-> [total_checks |-> 0, passed |-> 0, failed |-> 0,
                                     warnings |-> 0, quality_score |-> 0]],
           quality_score |-> 0]

\* a processor just built, about to validate some DataFrame
ValidInit ==
    /\ vdf \in ValidatedFrames
    /\ today = LastDay - 1
    /\ self_data = NoneDf
    /\ vret = NoVret
    /\ vprev = NoVret
    /\ vcalls = 0

\* the processor is not in use
ValidIdle ==
    /\ vdf = <<>>
    /\ today = LastDay - 1
    /\ self_data = NoneDf
    /\ vret = NoVret
    /\ vprev = NoVret
    /\ vcalls = 0

\* faulty variant: the call keeps the DataFrame in self.data, as process_data does
ValidateDataStoresFrame ==
    LET r == ValidateDataResult(vdf, today)
    IN  /\ vcalls < MaxValidateCalls
        /\ vcalls' = vcalls + 1
        /\ vret' = [called |-> TRUE, day |-> today, is_valid |-> r.is_valid,
                    results |-> r.results, quality_score |-> r.quality_score]
        /\ vprev' = vret
        /\ self_data' = SomeDf(vdf)
        /\ UNCHANGED <<vdf, today>>

\* validate_data(vdf): it builds and returns its report, and assigns neither
\* a column of df nor an attribute of self
ValidateData ==
    LET r == ValidateDataResult(vdf, today)
    IN  /\ vcalls < MaxValidateCalls
        /\ vcalls' = vcalls + 1
        /\ vret' = [called |-> TRUE, day |-> today, is_valid |-> r.is_valid,
                    results |-> r.results, quality_score |-> r.quality_score]
        /\ vprev' = vret
        /\ UNCHANGED <<vdf, today, self_data>>

\* midnight passes between two calls
DayPasses ==
    /\ today < LastDay
    /\ today' = today + 1
    /\ UNCHANGED <<vdf, self_data, vret, vprev, vcalls>>

\* ------------------------------------------------ DataProcessor.process_data
\* a float that is a ratio of integers, or NaN
RECURSIVE GCD(_, _)
GCD(a, b) == IF b = 0 THEN Abs(a) ELSE GCD(b, a % b)

NaNum == [na |-> TRUE, num |-> 0, den |-> 1]
Num(n, d) ==
    LET g == GCD(Abs(n), Abs(d))
    IN  IF d < 0 THEN [na |-> FALSE, num |-> (0 - n) \div g, den |-> (0 - d) \div g]
        ELSE [na |-> FALSE, num |-> n \div g, den |-> d \div g]

Times(x, y) == IF x.na \/ y.na THEN NaNum ELSE Num(x.num * y.num, x.den * y.den)
Plus(x, y) ==
    IF x.na \/ y.na THEN NaNum ELSE Num(x.num * y.den + y.num * x.den, x.den * y.den)
NumEq(x, y) == ~x.na /\ ~y.na /\ x.num * y.den = y.num * x.den

\* the DataFrames handed to process_data: rows of a date (in days) and two
\* prices, a price being positive or missing; any order, dates may repeat
RawPrices == {NaN, Price(1), Price(2)}
RawRows ==
    {[date |-> d, gold |-> x[1], sp500 |-> x[2]] :
        d \in 0..1,
        x \in {y \in RawPrices \X {NaN, Price(2)} : y[2] = Price(2) \/ y[1] = Price(1)}}
RawFrames == UNION {[1..n -> RawRows] : n \in 1..MaxRawRows}

\* df.sort_values('date').reset_index(drop=True): the rows in ascending order
\* of date; the default sort is not stable, rows of one date come in any order
SortValues(df) ==
    LET n == Len(df)
        perms == {f \in [1..n -> 1..n] : \A i, j \in 1..n : i # j => f[i] # f[j]}
    IN  {[i \in 1..n |-> df[f[i]]] :
            f \in {g \in perms : \A i \in 1..(n - 1) : df[g[i]].date <= df[g[i + 1]].date}}

\* fillna(method='ffill'): a missing value takes the last value before it
RECURSIVE Ffill(_, _)
Ffill(col, i) ==
    IF i = 0 THEN <<>>
    ELSE LET done == Ffill(col, i - 1)
         IN  IF col[i].na /\ i > 1 THEN Append(done, done[i - 1])
             ELSE Append(done, col[i])

\* fillna(method='bfill'): a missing value takes the first value after it;
\* Bfill(col, i) is the filled col[i..Len(col)]
RECURSIVE Bfill(_, _)
Bfill(col, i) ==
    IF i > Len(col) THEN <<>>
    ELSE LET rest == Bfill(col, i + 1)
         IN  IF col[i].na /\ i < Len(col) THEN <<rest[1]>> \o rest
             ELSE <<col[i]>> \o rest

\* faulty variant: forward fill only
FillNaForwardOnly(col) == Ffill(col, Len(col))

\* _handle_missing_values, one column:
\* df[c].fillna(method='ffill').fillna(method='bfill')
FillNa(col) == Bfill(Ffill(col, Len(col)), 1)

\* s.pct_change(): s / s.shift(1) - 1 on the padded series, NaN at the start
PctChange(col) ==
    [i \in 1..Len(col) |->
        IF i = 1 \/ Padded(col, i).na \/ Padded(col, i - 1).na THEN NaNum
        ELSE Plus(Num(Padded(col, i).v, Padded(col, i - 1).v), Num(-1, 1))]

\* s * k
Scaled(s, k) == [i \in 1..Len(s) |-> Times(s[i], Num(k, 1))]

\* faulty variant: returns as decimal fractions
PercentUnscaled(s) == s

\* "... .pct_change() * 100"
Percent(s) == Scaled(s, 100)

\* (1 + r / 100).cumprod() - 1: cumprod skips NaN and leaves it in place
RECURSIVE CumProd(_, _)
CumProd(s, i) ==
    IF i = 0 THEN [acc |-> Num(1, 1), out |-> <<>>]
    ELSE LET before == CumProd(s, i - 1)
         IN  IF s[i].na THEN [acc |-> before.acc, out |-> Append(before.out, NaNum)]
             ELSE [acc |-> Times(before.acc, s[i]),
                   out |-> Append(before.out, Times(before.acc, s[i]))]

Cumulative(r) ==
    LET growth == [i \in 1..Len(r) |-> Plus(Num(1, 1), Times(r[i], Num(1, 100)))]
        prod == CumProd(growth, Len(growth)).out
    IN  [i \in 1..Len(r) |-> Plus(prod[i], Num(-1, 1))]

\* process_data after the sort gave `sorted`: the fills, the two return
\* columns and the two cumulative columns (pd.to_numeric leaves floats alone)
ProcessedFrame(sorted) ==
    LET gold == FillNa(Column(sorted, "gold"))
        sp500 == FillNa(Column(sorted, "sp500"))
        gold_return == Percent(PctChange(gold))
        sp500_return == Percent(PctChange(sp500))
        gold_cumulative == Cumulative(gold_return)
        sp500_cumulative == Cumulative(sp500_return)
    IN  [i \in 1..Len(sorted) |->
            [date |-> sorted[i].date, gold |-> gold[i], sp500 |-> sp500[i],
             gold_return |-> gold_return[i], sp500_return |-> sp500_return[i],
             gold_cumulative |-> gold_cumulative[i],
             sp500_cumulative |-> sp500_cumulative[i]]]

\* what process_data may return for df
ProcessDataResults(df) == {ProcessedFrame(sorted) : sorted \in SortValues(df)}

ProcInit ==
    /\ praw \in RawFrames
    /\ pout = NoneDf
    /\ pcalls = 0

ProcIdle ==
    /\ praw = <<>>
    /\ pout = NoneDf
    /\ pcalls = 0

\* processor.process_data(praw): the result is returned and kept in self.data
ProcessData ==
    /\ pcalls < MaxProcessCalls
    /\ pcalls' = pcalls + 1
    /\ \E processed \in ProcessDataResults(praw) :
           /\ pout' = SomeDf(processed)
           /\ self_data' = SomeDf(processed)
    /\ UNCHANGED <<praw, vdf, today, vret, vprev, vcalls>>

\* ------------------------------------- StatsCalculator, the efficient frontier
\* two price series on identical dates, each price positive
SeriesPrices == {Price(1), Price(2)}
SeriesPairs ==
    UNION {[a : [1..n -> SeriesPrices], b : [1..n -> SeriesPrices]] : n \in 1..MaxSeriesLen}

\* the series 100, 101, ..., 109
SeriesA == [i \in 1..10 |-> Price(99 + i)]

\* the rows two series on identical dates give, oldest first
FrameOf(pair) ==
    [i \in 1..Len(pair.a) |-> [date |-> i - 1, gold |-> pair.a[i], sp500 |-> pair.b[i]]]

\* a float result: coef * sqrt(root), or NaN, or an infinity
Finite(coef, root) == [kind |-> "finite", coef |-> coef, root |-> root]
NotANumber == [kind |-> "nan", coef |-> NaNum, root |-> NaNum]
Infinity(negative) ==
    [kind |-> IF negative THEN "-inf" ELSE "inf", coef |-> NaNum, root |-> NaNum]

\* the int 0 of "return 0"
IntZero == Finite(Num(0, 1), Num(1, 1))

Inverse(x) == IF x.na THEN NaNum ELSE Num(x.den, x.num)
Minus(x, y) == Plus(x, Times(Num(-1, 1), y))

\* the values a reduction over a Series takes: NaN is skipped
DropNa(s) == SelectSeq(s, LAMBDA c : ~c.na)

RECURSIVE SumTo(_, _)
SumTo(s, i) == IF i = 0 THEN Num(0, 1) ELSE Plus(SumTo(s, i - 1), s[i])

\* Series.mean()
Mean(s) ==
    IF Len(DropNa(s)) = 0 THEN NaNum
    ELSE Times(SumTo(DropNa(s), Len(DropNa(s))), Num(1, Len(DropNa(s))))

\* the rows where both series hold a value
BothPresent(s, t) == {i \in 1..Len(s) : ~s[i].na /\ ~t[i].na}

RECURSIVE SumProducts(_, _, _, _, _)
SumProducts(s, t, ms, mt, rows) ==
    IF rows = {} THEN Num(0, 1)
    ELSE LET i == CHOOSE k \in rows : TRUE
         IN  Plus(Times(Minus(s[i], ms), Minus(t[i], mt)),
                  SumProducts(s, t, ms, mt, rows \ {i}))

Pick(s, rows) == [i \in 1..Len(s) |-> IF i \in rows THEN s[i] ELSE NaNum]

\* Series.cov(other): the sample covariance (ddof=1) over the rows where both
\* hold a value, NaN with fewer than two of them
Cov(s, t) ==
    IF Cardinality(BothPresent(s, t)) < 2 THEN NaNum
    ELSE Times(SumProducts(s, t, Mean(Pick(s, BothPresent(s, t))),
                           Mean(Pick(t, BothPresent(s, t))), BothPresent(s, t)),
               Num(1, Cardinality(BothPresent(s, t)) - 1))

\* Series.var(): the sample variance (ddof=1); Series.std() is its root
Var(s) == Cov(s, s)

Sqrt(x) == IF x.na THEN NotANumber ELSE Finite(Num(1, 1), x)

\* x / y on numpy floats, y being sqrt(y2): division by zero gives an
\* infinity, 0 / 0 gives NaN, neither raises
DivideByRoot(x, y2) ==
    IF x.na \/ y2.na THEN NotANumber
    ELSE IF y2.num = 0
    THEN IF x.num = 0 THEN NotANumber ELSE Infinity(x.num < 0)
    ELSE Finite(x, Inverse(y2))

Divide(x, y) ==
    IF x.na \/ y.na THEN NotANumber
    ELSE IF y.num = 0
    THEN IF x.num = 0 THEN NotANumber ELSE Infinity(x.num < 0)
    ELSE Finite(Times(x, Inverse(y)), Num(1, 1))

\* coef * sqrt(root) * sqrt(k)
TimesRoot(x, k) == IF x.kind = "finite" THEN Finite(x.coef, Times(x.root, Num(k, 1))) ELSE x

\* calculate_returns(prices, return_type): pct_change() * 100, or the log of
\* prices / prices.shift(1) times 100 (kept as the ratios), or ValueError
CalculateReturnsResult(prices, return_type) ==
    IF return_type = "simple"
    THEN [raised |-> FALSE, log |-> FALSE, series |-> Percent(PctChange(prices))]
    ELSE IF return_type = "log"
    THEN [raised |-> FALSE, log |-> TRUE,
          series |-> [i \in 1..Len(prices) |->
                         IF i = 1 \/ prices[i].na \/ prices[i - 1].na THEN NaNum
                         ELSE Num(prices[i].v, prices[i - 1].v)]]
    ELSE [raised |-> TRUE, log |-> FALSE, series |-> <<>>]

\* calculate_volatility: returns.std() * np.sqrt(periods)
CalculateVolatilityResult(returns) == TimesRoot(Sqrt(Var(returns)), periods)

\* calculate_sharpe_ratio once excess_return and the variance under
\* volatility are known: "if volatility == 0: return 0"
SharpeRatio(excess_return, variance) ==
    IF ~variance.na /\ variance.num = 0 THEN IntZero
    ELSE TimesRoot(DivideByRoot(excess_return, variance), periods)

CalculateSharpeRatioResult(returns) ==
    SharpeRatio(Minus(Mean(returns), Num(risk_free_rate_pct, 100 * periods)), Var(returns))

\* calculate_beta once covariance and market_variance are known:
\* "if market_variance == 0: return 0"
Beta(covariance, market_variance) ==
    IF ~market_variance.na /\ market_variance.num = 0 THEN IntZero
    ELSE Divide(covariance, market_variance)

CalculateBetaResult(asset_returns, market_returns) ==
    Beta(Cov(asset_returns, market_returns), Var(market_returns))

\* the weights of one sampled portfolio: w and 1 - w, w a multiple of
\* 1 / WeightSteps
Weights == {Num(k, WeightSteps) : k \in 0..WeightSteps}

\* one pass of the sampling loop: p_return, p_std (as its square) and
\* "p_sharpe = p_return / p_std"
PortfolioSharpe(p_return, p_variance) == DivideByRoot(p_return, p_variance)

PortfolioReturn(w, gld, spy) ==
    Times(Plus(Times(w, Mean(gld)), Times(Minus(Num(1, 1), w), Mean(spy))),
          Num(periods, 1))

PortfolioVariance(w, gld, spy) ==
    Times(Plus(Plus(Times(Times(w, w), Var(gld)),
                    Times(Times(Num(2, 1), Times(w, Minus(Num(1, 1), w))), Cov(gld, spy))),
               Times(Times(Minus(Num(1, 1), w), Minus(Num(1, 1), w)), Var(spy))),
          Num(periods, 1))

NoSout ==
    [op |-> "none", returns |-> <<>>, other |-> <<>>, weight |-> NaNum,
     return_type |-> "none", raised |-> FALSE, series |-> <<>>, log |-> FALSE,
     value |-> NotANumber]

StatInit ==
    /\ sprices \in SeriesPairs
    /\ praw = FrameOf(sprices)
    /\ pout = NoneDf
    /\ pcalls = 0
    /\ sout = NoSout

StatIdle ==
    /\ sprices = [a |-> <<>>, b |-> <<>>]
    /\ sout = NoSout

\* StatsCalculator.calculate_returns(prices, return_type)
CalculateReturns(prices, return_type) ==
    /\ sout' = [NoSout EXCEPT !.op = "calculate_returns", !.returns = prices,
                              !.return_type = return_type,
                              !.raised = CalculateReturnsResult(prices, return_type).raised,
                              !.log = CalculateReturnsResult(prices, return_type).log,
                              !.series = CalculateReturnsResult(prices, return_type).series]
    /\ UNCHANGED sprices

\* StatsCalculator.calculate_volatility(returns)
CalculateVolatility(returns) ==
    /\ sout' = [NoSout EXCEPT !.op = "calculate_volatility", !.returns = returns,
                              !.value = CalculateVolatilityResult(returns)]
    /\ UNCHANGED sprices

\* StatsCalculator.calculate_sharpe_ratio(returns)
CalculateSharpeRatio(returns) ==
    /\ sout' = [NoSout EXCEPT !.op = "calculate_sharpe_ratio", !.returns = returns,
                              !.value = CalculateSharpeRatioResult(returns)]
    /\ UNCHANGED sprices

\* StatsCalculator.calculate_beta(asset_returns, market_returns)
CalculateBeta(asset_returns, market_returns) ==
    /\ sout' = [NoSout EXCEPT !.op = "calculate_beta", !.returns = asset_returns,
                              !.other = market_returns,
                              !.value = CalculateBetaResult(asset_returns, market_returns)]
    /\ UNCHANGED sprices

\* one pass of the efficient frontier loop with the weights w and 1 - w
FrontierSample(w, gld, spy) ==
    /\ sout' = [NoSout EXCEPT !.op = "frontier", !.returns = gld, !.other = spy,
                              !.weight = w,
                              !.value = PortfolioSharpe(PortfolioReturn(w, gld, spy),
                                                        PortfolioVariance(w, gld, spy))]
    /\ UNCHANGED sprices

\* ---------------------------------------- the page: fetch_and_process_data
\* process_data(raw_data) with the dict fetch_all returns: "processed['date']"
\* raises KeyError on a dict keyed by ticker (and pd.to_datetime raises on a
\* frame of Close prices, were a ticker called 'date'); no frame comes back
ProcessDataOfDict(raw) == [raised |-> TRUE, df |-> <<>>]

\* what fetcher.fetch_all() may return for the configured tickers: each
\* symbol's series (of MaxFrameRows rows at most) or a failure entry
FetchOutcomes ==
    {FetchAllReturn(raw,
                    IF "GLD" \in DOMAIN raw
                    THEN IF "SPY" \in DOMAIN raw THEN <<>>
                         ELSE <<FailureEntry("SPY", NoFres)>>
                    ELSE IF "SPY" \in DOMAIN raw THEN <<FailureEntry("GLD", NoFres)>>
                         ELSE <<FailureEntry("GLD", NoFres), FailureEntry("SPY", NoFres)>>) :
        raw \in UNION {[S -> 1..MaxFrameRows] : S \in SUBSET Symbols}}

\* the second value fetch_and_process_data returns: None, the cache metadata,
\* or {'rows', 'quality_score', 'validation'}
NoInfo == [kind |-> "none", cache_info |-> EmptyDict, rows |-> 0,
           quality_score |-> 0, validation |-> NoVret.results]
CacheInfo(metadata) == [NoInfo EXCEPT !.kind = "cache", !.cache_info = metadata]
FreshInfo(df, v) == [kind |-> "fresh", cache_info |-> EmptyDict, rows |-> Len(df),
                     quality_score |-> v.quality_score, validation |-> v.results]

NoValidation == [some |-> FALSE, results |-> NoVret.results]

\* st.session_state as the script initialises it
InitialSession ==
    [data |-> NoneDf, fetch_status |-> "none", fetch_timestamp |-> NotIso,
     validation_results |-> NoValidation]

\* faulty variant: a cached entry is never used
CacheHitNever(use_cache, l) == FALSE

\* "if use_cache: ... if is_valid and cached_data is not None"
CacheHit(use_cache, l) == use_cache /\ l.is_valid /\ l.data.some

\* faulty variant: fetch_and_process_data has no try block
CaughtByNoHandler(raised) == FALSE

\* "except Exception as e" of fetch_and_process_data
CaughtByPage(raised) == raised

\* fetch_and_process_data returns (None, None) without touching anything
NothingFetched(f, ss, fetched, called) ==
    [data |-> NoneDf, info |-> NoInfo, session |-> ss, files |-> f, hit |-> FALSE,
     fetched |-> called, raw |-> fetched.data, validated |-> FALSE,
     is_valid |-> FALSE, saved |-> FALSE, raised |-> FALSE]

\* the rest of the try block once process_data returned the frame df and
\* validate_data the verdict v: save_cache whatever v.is_valid says, then the
\* session state and the return value
ValidatedAndSaved(f, t, dur, fetched, fault, df, v) ==
    [data |-> SomeDf(df),
     info |-> FreshInfo(df, v),
     session |-> [data |-> SomeDf(df), fetch_status |-> "fresh",
                  fetch_timestamp |-> IsoFormat(t),
                  validation_results |-> [some |-> TRUE, results |-> v.results]],
     files |-> SaveCacheResult(f, df, [quality_score |-> v.quality_score],
                               t, dur, fault).files,
     hit |-> FALSE, fetched |-> TRUE, raw |-> fetched.data, validated |-> TRUE,
     is_valid |-> v.is_valid, saved |-> TRUE, raised |-> FALSE]

\* the try block of fetch_and_process_data after fetch_all returned data, p
\* being what process_data did: an exception ends the block, a frame goes on
\* to validate_data and save_cache
Processed(f, t, dur, ss, fetched, fault, p) ==
    IF p.raised
    THEN IF CaughtByPage(p.raised)
         THEN NothingFetched(f, ss, fetched, TRUE)
         ELSE [NothingFetched(f, ss, fetched, TRUE) EXCEPT !.raised = TRUE]
    ELSE ValidatedAndSaved(f, t, dur, fetched, fault, p.df,
                           ValidateDataResult(p.df, t \div 24))

FreshData(f, t, dur, ss, fetched, fault) ==
    Processed(f, t, dur, ss, fetched, fault, ProcessDataOfDict(fetched.data.map))

\* fetch_and_process_data(use_cache) on the cache directory f at time t, with
\* session state ss; fetched is what fetch_all returns if it is called
FetchAndProcessData(use_cache, f, t, dur, ss, fetched, fault) ==
    LET l == LoadCacheResult(f, t)
    IN  IF CacheHit(use_cache, l)
        THEN [data |-> l.data,
              info |-> CacheInfo(l.metadata),
              session |-> [ss EXCEPT !.fetch_status = "cache",
                                     !.fetch_timestamp = Get(l.metadata, "cached_at", NotIso),
                                     !.data = l.data],
              files |-> f, hit |-> TRUE, fetched |-> FALSE, raw |-> NoneData,
              validated |-> FALSE, is_valid |-> FALSE, saved |-> FALSE,
              raised |-> FALSE]
        ELSE IF ~fetched.data.some
        THEN NothingFetched(f, ss, fetched, TRUE)
        ELSE FreshData(f, t, dur, ss, fetched, fault)

\* no call of fetch_and_process_data in this script run
NotCalled(f, ss) == NothingFetched(f, ss, NoFret, FALSE)

\* faulty variant: the script does not look at the cache by itself
LoadDefaultSkipped(ss, f, t) == ss

\* main(): "if st.session_state.data is None:" load_cache, and take the entry
\* if it is valid
LoadDefault(ss, f, t) ==
    LET l == LoadCacheResult(f, t)
    IN  IF ~ss.data.some /\ l.is_valid /\ l.data.some
        THEN [ss EXCEPT !.data = l.data,
                        !.fetch_status = "cache",
                        !.fetch_timestamp = Get(l.metadata, "cached_at", NotIso)]
        ELSE ss

\* pret.run: the button of the last script run, "rerun" for a run st.rerun()
\* started; pret.rerun_of: the button of the run that called st.rerun();
\* pret.before, pret.at: the cache directory and the time when the run began
NoPret ==
    [called |-> FALSE, use_cache |-> FALSE, data |-> NoneDf, info |-> NoInfo,
     hit |-> FALSE, fetched |-> FALSE, raw |-> NoneData, validated |-> FALSE,
     is_valid |-> FALSE, saved |-> FALSE, raised |-> FALSE,
     before |-> [csv |-> AbsentFile, parquet |-> AbsentFile, meta |-> AbsentFile],
     at |-> 0, run |-> "none", rerun_of |-> "none"]

PipeInit ==
    /\ session_state = InitialSession
    /\ ppc = "idle"
    /\ pret = NoPret
    /\ pruns = 0

\* main(): the call of fetch_and_process_data the clicked button makes, if any
ButtonCall(button, fetched, fault) ==
    CASE button = "fetch" ->
             FetchAndProcessData(TRUE, Files, now, cache_duration_hours,
                                 session_state, fetched, fault)
      [] button = "refresh" ->
             FetchAndProcessData(FALSE, Files, now, cache_duration_hours,
                                 [session_state EXCEPT !.data = NoneDf],
                                 fetched, fault)
      [] OTHER -> NotCalled(Files, session_state)

\* main(): "if clear_btn: if cache_mgr.clear_cache():", a being the call before
ButtonClear(button, a, clear_fault) ==
    IF button = "clear" /\ ~a.raised
    THEN ClearCacheResult(a.files, clear_fault)
    ELSE [ok |-> FALSE, files |-> a.files]

\* the script run once the button's call returned a and clear_cache returned c
ScriptRunAfter(button, a, c) ==
    LET cleared_session == IF c.ok THEN [a.session EXCEPT !.data = NoneDf] ELSE a.session
        rerun == ~a.raised /\ (button = "refresh" \/ c.ok)
    IN  /\ pruns < MaxScriptRuns
        /\ ppc = "rerun" => button = "none"
        /\ pruns' = pruns + 1
        /\ SetFiles(c.files)
        /\ session_state' = IF rerun \/ a.raised THEN cleared_session
                            ELSE LoadDefault(cleared_session, c.files, now)
        /\ ppc' = IF rerun THEN "rerun" ELSE "idle"
        /\ pret' = IF ppc = "rerun"
                   THEN [pret EXCEPT !.run = "rerun", !.rerun_of = pret.run]
                   ELSE [called |-> button \in {"fetch", "refresh"},
                         use_cache |-> (button = "fetch"),
                         data |-> a.data, info |-> a.info, hit |-> a.hit,
                         fetched |-> a.fetched, raw |-> a.raw,
                         validated |-> a.validated, is_valid |-> a.is_valid,
                         saved |-> a.saved, raised |-> a.raised,
                         before |-> Files, at |-> now, run |-> button,
                         rerun_of |-> "none"]
        /\ UNCHANGED <<cache_duration_hours, now, lastOp, ret, lastSaved, cleared>>

ScriptRunCalled(button, a, clear_fault) ==
    ScriptRunAfter(button, a, ButtonClear(button, a, clear_fault))

\* one run of the page script, main() from top to bottom or to st.rerun():
\* the button the user clicked (none in a run st.rerun() started), the two
\* calls of fetch_and_process_data, clear_cache, the default load
ScriptRun(button, fetched, fault, clear_fault) ==
    ScriptRunCalled(button, ButtonCall(button, fetched, fault), clear_fault)

\* time passes between two clicks (st.rerun() starts the next run at once)
PageTick ==
    /\ ppc = "idle"
    /\ now + TickHours <= MaxNow
    /\ now' = now + TickHours
    /\ UNCHANGED <<csv_cache, parquet_cache, metadata_file, cache_duration_hours,
                   lastOp, ret, lastSaved, cleared, pipeVars>>

\* ---------------------------------------------------------- specifications
Init ==
    CacheInit /\ ConcInit /\ FetchInit /\ PageFetcher /\ tickers = <<>> /\ ValidIdle /\ PipeInit
    /\ ProcIdle
    /\ StatIdle

Next ==
    \/ \E df \in DataFrames, metadata \in MetadataArgs, fault \in SaveFaults :
           SaveCache(df, metadata, fault) /\ UNCHANGED <<concVars, fetchVars, pageVars>>
    \/ LoadCache /\ UNCHANGED <<concVars, fetchVars, pageVars>>
    \/ \E fault \in ClearFaults : ClearCache(fault) /\ UNCHANGED <<concVars, fetchVars, pageVars>>
    \/ GetCacheInfo /\ UNCHANGED <<concVars, fetchVars, pageVars>>
    \/ Tick /\ UNCHANGED <<concVars, fetchVars, pageVars>>

\* one CacheManager, one caller
Spec == Init /\ [][Next]_vars

\* what a writer's step leaves alone
callerVars == <<cache_duration_hours, now, lastOp, ret, lastSaved, cleared, fetchVars,
                pageVars>>

ConcNext ==
    \/ \E w \in Writers, df \in DataFrames : WriterCall(w, df) /\ UNCHANGED callerVars
    \/ \E w \in Writers : WriterToCsv(w) /\ UNCHANGED callerVars
    \/ \E w \in Writers : WriterToParquet(w) /\ UNCHANGED callerVars
    \/ \E w \in Writers : WriterMetadata(w) /\ UNCHANGED callerVars
    \/ ConcTick /\ UNCHANGED <<cache_duration_hours, lastOp, ret, lastSaved, cleared, fetchVars,
                              pageVars>>

\* two processes calling save_cache on the same cache_dir
SpecConc == Init /\ [][ConcNext]_vars

FetchSpecInit ==
    /\ CacheInit
    /\ cache_duration_hours = DefaultCacheDurationHours
    /\ ConcInit
    /\ FetchInit
    /\ start_date \in StartDateArgs
    /\ end_date \in EndDateArgs
    /\ ValidIdle
    /\ PipeInit
    /\ ProcIdle
    /\ StatIdle

FetchNext ==
    \/ FetchAllCall /\ UNCHANGED <<cacheVars, concVars, pageVars>>
    \/ FetchWithRetryCall /\ UNCHANGED <<cacheVars, concVars, pageVars>>
    \/ \E out \in DownloadOutcomes : DownloadAttempt(out) /\ UNCHANGED <<cacheVars, concVars, pageVars>>
    \/ TickerHandled /\ UNCHANGED <<cacheVars, concVars, pageVars>>
    \/ FetchAllDone /\ UNCHANGED <<cacheVars, concVars, pageVars>>

\* one DataFetcher, its fetch_all called MaxFetchCalls times at most
SpecFetch == FetchSpecInit /\ [][FetchNext]_vars

\* a download that was started comes back (yf.download has a timeout), and
\* the interpreter goes on to the next statement
SpecFetchFair == SpecFetch /\ WF_vars(FetchNext)

ValidSpecInit ==
    /\ CacheInit
    /\ cache_duration_hours = DefaultCacheDurationHours
    /\ ConcInit
    /\ FetchInit
    /\ PageFetcher
    /\ tickers = <<>>
    /\ PipeInit
    /\ ValidInit
    /\ ProcIdle
    /\ StatIdle

ValidNext ==
    \/ ValidateData /\ UNCHANGED <<cacheVars, concVars, fetchVars, pipeVars, procVars, statVars>>
    \/ DayPasses /\ UNCHANGED <<cacheVars, concVars, fetchVars, pipeVars, procVars, statVars>>

\* one DataProcessor validating one DataFrame MaxValidateCalls times at most
SpecValid == ValidSpecInit /\ [][ValidNext]_vars

ProcSpecInit ==
    /\ CacheInit
    /\ cache_duration_hours = DefaultCacheDurationHours
    /\ ConcInit
    /\ FetchInit
    /\ PageFetcher
    /\ tickers = <<>>
    /\ ValidIdle
    /\ PipeInit
    /\ ProcInit
    /\ StatIdle

ProcNext ==
    ProcessData /\ UNCHANGED <<cacheVars, concVars, fetchVars, pipeVars, statVars>>

\* one DataProcessor processing one DataFrame MaxProcessCalls times at most
SpecProc == ProcSpecInit /\ [][ProcNext]_vars

StatSpecInit ==
    /\ CacheInit
    /\ cache_duration_hours = DefaultCacheDurationHours
    /\ ConcInit
    /\ FetchInit
    /\ PageFetcher
    /\ tickers = <<>>
    /\ ValidIdle
    /\ PipeInit
    /\ StatInit

otherVars == <<cacheVars, concVars, fetchVars, validVars, pipeVars, procVars>>

StatNext ==
    \/ ProcessData /\ UNCHANGED <<cacheVars, concVars, fetchVars, pipeVars, statVars>>
    \/ \E prices \in {sprices.a, sprices.b, SeriesA},
          return_type \in {"simple", "log", "compound"} :
           CalculateReturns(prices, return_type) /\ UNCHANGED otherVars
    \/ \E prices \in {sprices.a, sprices.b} :
           CalculateVolatility(PctChange(prices)) /\ UNCHANGED otherVars
    \/ \E prices \in {sprices.a, sprices.b} :
           CalculateSharpeRatio(PctChange(prices)) /\ UNCHANGED otherVars
    \/ CalculateBeta(PctChange(sprices.a), PctChange(sprices.b)) /\ UNCHANGED otherVars
    \/ \E w \in Weights :
           FrontierSample(w, DropNa(PctChange(sprices.a)), DropNa(PctChange(sprices.b)))
           /\ UNCHANGED otherVars

\* the metrics of two price series on identical dates, and process_data on
\* the dataset they make
SpecStats == StatSpecInit /\ [][StatNext]_vars

\* cache_dir as the page may find it: empty, or as a save_cache call of an
\* earlier session left it at time 0
LeftoverDirs(dur) ==
    LET empty == [csv |-> AbsentFile, parquet |-> AbsentFile, meta |-> AbsentFile]
    IN  {empty} \cup
        {SaveCacheResult(empty, df, metadata, 0, dur, fault).files :
            df \in DataFrames, metadata \in MetadataArgs, fault \in SaveFaults}

PipeSpecInit ==
    /\ cache_duration_hours \in {TickHours, DefaultCacheDurationHours}
    /\ \E f \in LeftoverDirs(cache_duration_hours) :
           /\ csv_cache = f.csv
           /\ parquet_cache = f.parquet
           /\ metadata_file = f.meta
    /\ now = 0
    /\ lastOp = "init"
    /\ ret = NoRet
    /\ lastSaved = NoSaved
    /\ cleared = FALSE
    /\ ConcInit
    /\ FetchInit
    /\ PageFetcher
    /\ tickers = <<>>
    /\ ValidIdle
    /\ PipeInit
    /\ ProcIdle
    /\ StatIdle

PipeNext ==
    \/ \E button \in {"fetch", "refresh"}, fetched \in FetchOutcomes, fault \in SaveFaults :
           ScriptRun(button, fetched, fault, "none")
           /\ UNCHANGED <<concVars, fetchVars, validVars, procVars, statVars>>
    \/ \E clear_fault \in ClearFaults :
           ScriptRun("clear", NoFret, "none", clear_fault)
           /\ UNCHANGED <<concVars, fetchVars, validVars, procVars, statVars>>
    \/ ScriptRun("none", NoFret, "none", "none")
           /\ UNCHANGED <<concVars, fetchVars, validVars, procVars, statVars>>
    \/ PageTick /\ UNCHANGED <<concVars, fetchVars, validVars, procVars, statVars>>

\* one browser session on the data collection page
SpecPipe == PipeSpecInit /\ [][PipeNext]_vars

\* ------------------------------------------------------------ cache claims
NothingCached(f) == ExistingFiles(f) = {}

\* the entry on disk is complete, readable and not expired at time t
EntryUsable(f, t) ==
    /\ f.parquet.st = "ok"
    /\ f.meta.st = "ok"
    /\ "expires_at" \in DOMAIN f.meta.json
    /\ f.meta.json["expires_at"].iso
    /\ t < f.meta.json["expires_at"].t

\* load_cache is valid exactly on a usable entry, returns that entry, and
\* returns (None, False, reason) otherwise; it never raises
LoadCacheIff ==
    lastOp = "load_cache" =>
        /\ ~ret.load.raised
        /\ ret.load.is_valid <=> EntryUsable(Files, now)
        /\ ret.load.is_valid =>
               /\ ret.load.data = SomeDf(parquet_cache.df)
               /\ ret.load.metadata = metadata_file.json
        /\ ~ret.load.is_valid =>
               /\ ret.load.data = NoneDf
               /\ ret.load.reason # ""

\* a load_cache right after a successful save_cache under a 24 h duration is valid
LoadAfterSaveValid ==
    (/\ lastOp = "load_cache"
     /\ lastSaved.fresh
     /\ lastSaved.at = now
     /\ cache_duration_hours = DefaultCacheDurationHours)
        => ret.load.is_valid

\* a load_cache of an entry whose expires_at is in the past is a miss
LoadExpiredInvalid ==
    (/\ lastOp = "load_cache"
     /\ metadata_file.st = "ok"
     /\ "expires_at" \in DOMAIN metadata_file.json
     /\ metadata_file.json["expires_at"].iso
     /\ metadata_file.json["expires_at"].t < now)
        => (~ret.load.is_valid /\ ret.load.data = NoneDf)

\* C1: load_cache returns (dataset, True, metadata) iff the dataset file and
\* the metadata record exist, are readable and parseable and now is strictly
\* before the stored expires_at, and (None, False, reason) otherwise, without
\* raising; a load right after a successful save under a 24 h duration is
\* valid; a load of an entry whose expires_at is in the past is a miss.
C1_LoadCacheContract ==
    LoadCacheIff /\ LoadAfterSaveValid /\ LoadExpiredInvalid

\* C2: after every successful save_cache, whatever metadata the caller passed,
\* the stored record has cached_at = the time of the save and
\* expires_at = that time + the configured duration.
C2_SaveStampsEntry ==
    (lastOp = "save_cache" /\ ret.ok) =>
        /\ metadata_file.st = "ok"
        /\ Get(metadata_file.json, "cached_at", NotIso) = IsoFormat(now)
        /\ Get(metadata_file.json, "expires_at", NotIso)
               = IsoFormat(now + cache_duration_hours)

\* the record the last successful save_cache was to store
SavedRecord ==
    MergedMetadata(lastSaved.df, lastSaved.metadata, lastSaved.at,
                   cache_duration_hours)

\* the instant that record expires lies after t
BeforeExpiry(t) ==
    /\ SavedRecord["expires_at"].iso
    /\ t < SavedRecord["expires_at"].t

\* C3: save_cache overwrites any prior entry: once the last change of the
\* cache is a successful save_cache, a load_cache before that save's expiry
\* is valid and returns the dataset and the metadata of that save.
C3_LoadReturnsLastSave ==
    (lastOp = "load_cache" /\ lastSaved.fresh /\ BeforeExpiry(now)) =>
        /\ ret.load.is_valid
        /\ ret.load.data = SomeDf(lastSaved.df)
        /\ ret.load.metadata = SavedRecord

C3_Witness ==
    /\ lastOp = "load_cache"
    /\ lastSaved.fresh
    /\ lastSaved.over
    /\ lastSaved.at < now
    /\ BeforeExpiry(now)
    /\ ret.load.is_valid
    /\ ret.load.data = SomeDf(lastSaved.df)

\* C4: clear_cache that returns True leaves none of the three files; with
\* nothing cached it returns True whatever os.remove would do; a second
\* clear_cache leaves the state of the first; and from a successful clear
\* until the next successful save_cache, load_cache is a miss and
\* get_cache_info reports exists = False.
C4_ClearCacheIdempotent ==
    /\ (lastOp = "clear_cache" /\ ret.ok) => NothingCached(Files)
    /\ NothingCached(Files) =>
           \A fault \in ClearFaults :
               ClearCacheResult(Files, fault) = [ok |-> TRUE, files |-> Files]
    /\ \A f1 \in ClearFaults, f2 \in ClearFaults :
           LET once == ClearCacheResult(Files, f1)
               twice == ClearCacheResult(once.files, f2)
           IN  once.ok => (twice.ok /\ twice.files = once.files)
    /\ cleared =>
           /\ ~LoadCacheResult(Files, now).is_valid
           /\ LoadCacheResult(Files, now).data = NoneDf
           /\ ~GetCacheInfoResult(Files, now).exists
    /\ (cleared /\ lastOp = "load_cache") => ~ret.load.is_valid
    /\ (cleared /\ lastOp = "get_cache_info") => ~ret.info.exists

C4_Witness ==
    /\ lastOp = "clear_cache"
    /\ ret.ok
    /\ ret.removed = 3
    /\ cleared
    /\ NothingCached(Files)

\* ------------------------------------------------------- concurrent saves
NoWriterInside == \A w \in Writers : wpc[w] = "idle"

\* C5: when two processes run save_cache concurrently, the entry that
\* remains is entirely that of one writer: the dataset and the metadata a
\* later load_cache returns come from the same save_cache call.
C5_LastWriterWins ==
    (NoWriterInside /\ LoadCacheResult(Files, now).is_valid) =>
        /\ parquet_by = meta_by
        /\ LoadCacheResult(Files, now).metadata["rows"]
               = Len(LoadCacheResult(Files, now).data.df)

\* ----------------------------------------------------------- fetch claims
Requested == {tickers[i] : i \in 1..Len(tickers)}

\* the provider's last answer for ticker t holds at least one Close price
Yielded(t) ==
    /\ t \in DOMAIN ended
    /\ ended[t].kind = "frame"
    /\ ended[t].rows - ended[t].nans > 0

FailedIn(failed) == {failed[i].ticker : i \in 1..Len(failed)}

\* C6: fetch_all returns data = None iff no requested symbol yielded a
\* non-empty price series; otherwise it returns the mapping of exactly the
\* symbols that yielded one, with the list of the others as failures.
C6_FetchAllFailsIffNoSuccess ==
    fpc = "done" =>
        /\ ~fret.data.some <=> (\A t \in Requested : ~Yielded(t))
        /\ fret.data.some =>
               /\ DOMAIN fret.data.map = {t \in Requested : Yielded(t)}
               /\ \A t \in DOMAIN fret.data.map :
                      fret.data.map[t] = ended[t].rows - ended[t].nans
               /\ FailedIn(fret.failed) = {t \in Requested : ~Yielded(t)}

C6_Witness ==
    /\ fpc = "done"
    /\ Len(tickers) = 2
    /\ fret.data.some
    /\ DOMAIN fret.data.map = {tickers[2]}
    /\ FailedIn(fret.failed) = {tickers[1]}

\* C7: fetch_all never raises; every requested symbol was attempted and ends
\* in exactly one of the returned mapping and the failure list, once; a symbol
\* whose download is empty or raises at the last retry is in the failure list;
\* when every symbol returns zero rows the result is None with all symbols
\* listed as failures.
C7_FetchAllNeverRaises ==
    fpc = "done" =>
        /\ ~fret.raised
        /\ Requested \subseteq DOMAIN ended
        /\ \A t \in Requested :
               (t \in DOMAIN fret.data.map) <=> (t \notin FailedIn(fret.failed))
        /\ Len(fret.failed) = Cardinality(FailedIn(fret.failed))
        /\ \A t \in Requested :
               (t \in DOMAIN ended /\ ~Yielded(t)) => t \in FailedIn(fret.failed)
        /\ (\A t \in Requested : t \in DOMAIN ended /\ ended[t] = Frame(0, 0)) =>
               (~fret.data.some /\ FailedIn(fret.failed) = Requested)

C7_Witness ==
    /\ fpc = "done"
    /\ Len(tickers) = 2
    /\ ended[tickers[1]].kind = "error"
    /\ ended[tickers[2]] = Frame(0, 0)
    /\ ~fret.raised
    /\ ~fret.data.some
    /\ FailedIn(fret.failed) = Requested

DownloadsAt == {i \in 1..Len(log) : log[i].ev = "download"}
SleepsAt == {i \in 1..Len(log) : log[i].ev = "sleep"}

\* at most max_retries downloads; the call ends with a series, with None or
\* by raising the error of its last download
BoundedAttempts ==
    /\ Cardinality(DownloadsAt) <= max_retries
    /\ fpc = "returned" =>
           /\ fres.kind \in {"df", "none", "raise"}
           /\ fres.kind = "raise" =>
                  (log[Len(log)].ev = "download" /\ log[Len(log)].out.kind = "error")

\* a download that is followed by another one ended in a rate-limit error
RetryOnlyAfterTransient ==
    \A i \in DownloadsAt :
        (\E j \in DownloadsAt : j > i) => IsRateLimit(log[i].out)

\* C8: for one symbol _fetch_with_retry makes at most max_retries download
\* attempts and ends with a price series, with None or by raising the error
\* of the final attempt; a retry happens only after an error classified as
\* transient.
C8_BoundedTransientRetries ==
    BoundedAttempts /\ RetryOnlyAfterTransient

\* C9: an error not classified as transient fails immediately: it is the last
\* download of the call, and the call ends by raising it.
C9_PermanentErrorFailsAtOnce ==
    \A i \in DownloadsAt :
        (log[i].out.kind = "error" /\ ~IsRateLimit(log[i].out)) =>
            /\ i = Len(log)
            /\ fpc # "attempt"
            /\ fres.kind = "raise"

\* the k-th sleep of a call lasts base_wait * 2 ** (k - 1) seconds: 5, 10, 20
ExponentialWaits ==
    \A i \in SleepsAt :
        LET k == Cardinality({j \in SleepsAt : j <= i})
        IN  k <= 3 /\ log[i].wait = base_wait * Pow2(k - 1)

\* every download but the first comes right after one sleep
EachRetryAfterOneWait ==
    \A i \in DownloadsAt :
        i > 1 => (log[i - 1].ev = "sleep" /\ i > 2 /\ log[i - 2].ev = "download")

\* the call does not sleep after its last download
NoWaitAfterFinalAttempt ==
    /\ \A i \in SleepsAt : log[i].attempt < max_retries - 1
    /\ (fpc # "attempt" /\ log # <<>>) => log[Len(log)].ev = "download"

\* C10: the waits after transient errors are 5 s, 10 s, 20 s in that order,
\* each retry is preceded by exactly one wait, and no wait follows the final
\* attempt.
C10_ExponentialBackoff ==
    ExponentialWaits /\ EachRetryAfterOneWait /\ NoWaitAfterFinalAttempt

\* the 20 s wait is part of some call
TwentySecondWait == \E i \in SleepsAt : log[i].wait = 4 * base_wait

\* a started _fetch_with_retry call comes back
RetryTerminates == (fpc = "attempt") ~> (fpc = "returned")

\* ------------------------------------------------------------- page claims
\* C11: called with use_cache=True on a cache holding a readable entry that
\* has not expired, fetch_and_process_data returns the cached DataFrame, calls
\* neither fetch_all nor save_cache and leaves the cache files as they were;
\* fetch_all is called only when the cache is bypassed (use_cache=False) or
\* holds no such entry (missing, expired or unreadable)
C11_CachedWithinFreshnessWindow ==
    pret.called =>
        /\ (pret.use_cache /\ EntryUsable(pret.before, pret.at)) =>
               /\ pret.data = SomeDf(pret.before.parquet.df)
               /\ pret.info.kind = "cache"
               /\ ~pret.fetched
               /\ ~pret.saved
               /\ Files = pret.before
        /\ pret.fetched => (~pret.use_cache \/ ~EntryUsable(pret.before, pret.at))

\* a call served from the cache, later than the save that wrote the entry
C11_Witness ==
    /\ pret.called
    /\ pret.use_cache
    /\ pret.at > 0
    /\ EntryUsable(pret.before, pret.at)
    /\ pret.hit
    /\ pret.data.some
    /\ session_state.data = pret.data

\* a refresh that bypasses a usable entry, and a fetch on an expired one
C11_FetchWitness ==
    /\ pret.called
    /\ pret.fetched
    /\ \/ ~pret.use_cache /\ EntryUsable(pret.before, pret.at)
       \/ pret.use_cache /\ pret.before.parquet.st = "ok" /\ pret.before.meta.st = "ok"

\* the last fetch_and_process_data call went to the network and came back
\* without a dataset: fetch_all returned None, or processing raised
RefreshFailed == pret.called /\ pret.fetched /\ ~pret.data.some

\* C12: a refresh that fails in fetch_all or in processing leaves the three
\* cache files as they were, and the script run that ends the click (the run
\* st.rerun() starts, after the refresh button) presents the cached DataFrame
\* whenever the cache holds a readable entry that has not expired
C12_FailedRefreshFallsBack ==
    RefreshFailed =>
        /\ Files = pret.before
        /\ (ppc = "idle" /\ pret.at = now /\ EntryUsable(Files, now)) =>
               session_state.data = SomeDf(parquet_cache.df)

\* the refresh button, fetch_all returned both series, processing raised, and
\* the rerun shows the entry that is still in the cache
C12_Witness ==
    /\ RefreshFailed
    /\ pret.raw.some
    /\ DOMAIN pret.raw.map = Symbols
    /\ ~pret.use_cache
    /\ pret.run = "rerun"
    /\ pret.rerun_of = "refresh"
    /\ pret.at = now
    /\ EntryUsable(Files, now)
    /\ session_state.data = SomeDf(parquet_cache.df)

\* the same after fetch_all returned None
C12_FetchErrorWitness ==
    /\ RefreshFailed
    /\ ~pret.raw.some
    /\ pret.run = "rerun"
    /\ EntryUsable(Files, now)
    /\ session_state.data = SomeDf(parquet_cache.df)

\* the last call got a series for every configured symbol from fetch_all
FetchedAll ==
    /\ pret.called
    /\ pret.fetched
    /\ pret.raw.some
    /\ DOMAIN pret.raw.map = Symbols

\* save_cache is called only with a dataset validate_data found no failed
\* check in
OnlyValidatedWritten == pret.saved => (pret.validated /\ pret.is_valid)

\* the dataset of the fetched series is validated and, with no failed check,
\* handed to save_cache
ValidatedDataCached ==
    FetchedAll => (pret.validated /\ (pret.is_valid => pret.saved))

ValidationReached == pret.validated

\* C15: no exception leaves fetch_and_process_data: whatever load_cache finds
\* (no entry, an expired, partial or unreadable one), whatever fetch_all
\* returns and whether processing raises, the call returns either a DataFrame
\* with its info record or (None, None)
C15_NoUnhandledException ==
    pret.called =>
        /\ ~pret.raised
        /\ \/ pret.data.some /\ pret.info.kind \in {"cache", "fresh"}
           \/ ~pret.data.some /\ pret.info.kind = "none"

\* load_cache met an unreadable metadata record, fetch_all returned a series,
\* processing raised, and the call returned (None, None)
C15_Witness ==
    /\ pret.called
    /\ pret.use_cache
    /\ pret.before.meta.st = "corrupt"
    /\ pret.before.parquet.st = "ok"
    /\ pret.fetched
    /\ pret.raw.some
    /\ ~pret.raised
    /\ ~pret.data.some
    /\ pret.info = NoInfo

\* -------------------------------------------------------- validator claims
NFailed == Len(vret.results.failed)
NWarnings == Len(vret.results.warnings)

Clamp(x, lo, hi) == IF x < lo THEN lo ELSE IF x > hi THEN hi ELSE x

\* C16: the quality score validate_data returns (and writes to the summary)
\* is 100 - 10 * failed checks - 2 * warnings, clamped to 0..100: 100 with no
\* failed check and no warning, 90 with one failed check alone, 96 with two
\* warnings alone
C16_QualityScore ==
    vret.called =>
        /\ vret.quality_score = Clamp(100 - 10 * NFailed - 2 * NWarnings, 0, 100)
        /\ vret.results.summary.quality_score = vret.quality_score
        /\ (NFailed = 0 /\ NWarnings = 0) => vret.quality_score = 100
        /\ (NFailed = 1 /\ NWarnings = 0) => vret.quality_score = 90
        /\ (NFailed = 0 /\ NWarnings = 2) => vret.quality_score = 96

\* two warnings and no failed check: 96
C16_Witness ==
    /\ vret.called
    /\ NFailed = 0
    /\ NWarnings = 2
    /\ vret.quality_score = 96

\* a clean report, and a report with one failed check alone
CleanReport == vret.called /\ NFailed = 0 /\ NWarnings = 0 /\ vret.quality_score = 100
OneFailedReport == vret.called /\ NFailed = 1 /\ NWarnings = 0 /\ vret.quality_score = 90

\* is_valid is True exactly when results['failed'] is empty
ValidIffNoFailedCheck == vret.called => (vret.is_valid <=> NFailed = 0)

\* every price that is there is above zero, no row is dated after `day`, no
\* date comes twice: what is left to find are the four conditions the
\* validator warns about (daily change, date gap, missing price, row count)
OnlyWarningIssues(df, day) ==
    /\ \A i \in 1..Len(df) :
           /\ df[i].gold.na \/ df[i].gold.v > 0
           /\ df[i].sp500.na \/ df[i].sp500.v > 0
           /\ df[i].date <= day
    /\ \A i, j \in 1..Len(df) : df[i].date = df[j].date => i = j

HasNull(df) == \E i \in 1..Len(df) : df[i].gold.na \/ df[i].sp500.na

\* C17: is_valid is True if and only if no check failed, and a DataFrame
\* whose only issues are a daily change above the threshold, a date gap above
\* the maximum, missing prices or a row count outside tolerance is valid
C17_WarningsNeverInvalidate ==
    /\ ValidIffNoFailedCheck
    /\ (vret.called /\ OnlyWarningIssues(vdf, vret.day)) => vret.is_valid

\* the same for DataFrames without a missing price
WarningsWithoutNullValid ==
    (vret.called /\ OnlyWarningIssues(vdf, vret.day) /\ ~HasNull(vdf)) => vret.is_valid

\* a valid report with three warnings
ThreeWarningsValid == vret.called /\ vret.is_valid /\ NWarnings = 3

InList(name, list) == \E i \in 1..Len(list) : list[i] = name

Check1Passed == InList("No negative prices", vret.results.passed)
Check1Failed == InList("No negative prices", vret.results.failed)

\* every price that is there is above zero
AllPricesPositive(df) ==
    \A i \in 1..Len(df) :
        /\ df[i].gold.na \/ df[i].gold.v > 0
        /\ df[i].sp500.na \/ df[i].sp500.v > 0

\* C18: check 1 passes if every price of both columns is strictly positive,
\* and fails if one of them is negative or zero
C18_NoNegativeOrZeroPrice ==
    vret.called =>
        /\ Check1Passed <=> AllPricesPositive(vdf)
        /\ Check1Failed <=> ~AllPricesPositive(vdf)

\* check 1 fails exactly on a price below zero
Check1FailsBelowZero ==
    vret.called =>
        (Check1Failed <=>
            \E i \in 1..Len(vdf) :
                (~vdf[i].gold.na /\ vdf[i].gold.v < 0)
                    \/ (~vdf[i].sp500.na /\ vdf[i].sp500.v < 0))

Check10Passed == InList("Data matches expected trading days", vret.results.passed)
Check10Warning == InList("Data matches expected trading days", vret.results.warnings)

\* the row count differs by at most 5% from 252 rows per 365.25 days of the
\* span from the first date to the last (both sides times 36525)
WithinTolerance(df) ==
    LET expected == expected_per_year * SpanDays(df) * 100
    IN  Abs(Len(df) * 36525 - expected) * 100 <= 5 * expected

\* C19: check 10 passes if and only if the row count is within 5% of the
\* expected number of trading days of the span, and is a warning whenever the
\* row count is outside that tolerance, below or above
C19_TradingDaysWithinTolerance ==
    vret.called =>
        /\ Check10Passed <=> WithinTolerance(vdf)
        /\ Check10Warning <=> ~WithinTolerance(vdf)

\* check 10 warns exactly when the row count is below 95% of the expected
\* number, rounded down, or that number is 0
Check10WarnsBelowOnly ==
    vret.called =>
        (Check10Warning <=>
            (ExpectedTotal(vdf) = 0 \/ Len(vdf) * 100 < 95 * ExpectedTotal(vdf)))

\* more rows than the tolerance allows, and check 10 passed
TooManyRowsPassed == vret.called /\ Check10Passed /\ ~WithinTolerance(vdf)

\* two reports are the same: is_valid, the three lists, the details, the
\* summary and the score
SameReport(a, b) ==
    /\ a.is_valid = b.is_valid
    /\ a.results = b.results
    /\ a.quality_score = b.quality_score

C21_EndDefaultsToToday ==
    (start_date.some /\ ~end_date.some) =>
        \A i \in DownloadsAt :
            /\ log[i].request.kind = "range"
            /\ log[i].request.start = start_date.day
            /\ log[i].request.end = today

\* what the code does instead: without both dates it asks for the last year
PeriodWithoutBothDates ==
    \A i \in DownloadsAt :
        IF start_date.some /\ end_date.some
        THEN log[i].request = [kind |-> "range", start |-> start_date.day,
                               end |-> end_date.day, period |-> "none"]
        ELSE log[i].request.kind = "period" /\ log[i].request.period = "1y"

OneYearDespiteStartDate ==
    /\ start_date.some
    /\ ~end_date.some
    /\ \E i \in DownloadsAt : log[i].request.period = "1y"

\* a series of n rows holds the n latest trading days, so the dates two series
\* share are the dates of the shorter one
\* C22: merging the series the fetcher returned gives a dataset with exactly
\* the dates both series hold, so with at most min(len(a), len(b)) rows
C22_MergeKeepsCommonDates ==
    FetchedAll =>
        /\ pret.data.some
        /\ Len(pret.data.df) = Min(pret.raw.map["GLD"], pret.raw.map["SPY"])

\* what the code does instead: the dict of series goes to process_data
\* unmerged, process_data raises, and the page gets no dataset
NoDatasetFromSeries ==
    (pret.called /\ pret.fetched /\ pret.raw.some) =>
        ~pret.data.some /\ ~pret.validated /\ ~pret.saved

BothSeriesLost == FetchedAll /\ ~pret.data.some /\ pret.run = "fetch"

\* the rows of df in every order
Arrangements(df) ==
    LET n == Len(df)
    IN  {[i \in 1..n |-> df[f[i]]] :
            f \in {g \in [1..n -> 1..n] : \A i, j \in 1..n : i # j => g[i] # g[j]}}

\* the price a filled column holds at i: the price of col at i, else the
\* latest price before i, else the first price after i, else none
FilledAt(col, i) ==
    LET before == {k \in 1..i : ~col[k].na}
        after == {k \in i..Len(col) : ~col[k].na}
    IN  IF before # {} THEN col[CHOOSE k \in before : \A m \in before : m <= k]
        ELSE IF after # {} THEN col[CHOOSE k \in after : \A m \in after : k <= m]
        ELSE NaN

SortedByDate(df) == \A i, j \in 1..Len(df) : i < j => df[i].date <= df[j].date

HasPrice(col) == \E i \in 1..Len(col) : ~col[i].na
NoneMissing(col) == \A i \in 1..Len(col) : ~col[i].na

\* C23: the dataset process_data returns holds the rows of its input in
\* ascending order of date; in each price column a missing price is replaced
\* by the latest price before it, or at the start by the first price after
\* it, so a column with a price has no missing price left
C23_SortedAndFilled ==
    pout.some =>
        /\ SortedByDate(pout.df)
        /\ \E a \in Arrangements(praw) :
               /\ SortedByDate(a)
               /\ \A i \in 1..Len(a) :
                      /\ pout.df[i].date = a[i].date
                      /\ pout.df[i].gold = FilledAt(Column(a, "gold"), i)
                      /\ pout.df[i].sp500 = FilledAt(Column(a, "sp500"), i)
        /\ Len(pout.df) = Len(praw)
        /\ HasPrice(Column(praw, "gold")) => NoneMissing(Column(pout.df, "gold"))
        /\ HasPrice(Column(praw, "sp500")) => NoneMissing(Column(pout.df, "sp500"))

\* an unsorted frame whose gold column lacks its first and its last price
C23_Witness ==
    /\ pout.some
    /\ praw = <<[date |-> 1, gold |-> NaN, sp500 |-> Price(2)],
                [date |-> 0, gold |-> NaN, sp500 |-> Price(2)],
                [date |-> 1, gold |-> Price(1), sp500 |-> NaN]>>
    /\ Column(pout.df, "date") = <<0, 1, 1>>
    /\ Column(pout.df, "gold") = <<Price(1), Price(1), Price(1)>>
    /\ Column(pout.df, "sp500") = <<Price(2), Price(2), Price(2)>>

\* ---------------------------------------------------------- metric claims
\* (price[i] - price[i-1]) / price[i-1], in percent
SimpleReturn(prices, i) == Num((prices[i].v - prices[i - 1].v) * 100, prices[i - 1].v)

\* returns holds the simple daily returns of prices: none at the first
\* position, the percentage change from the price before at every other
SimpleReturnsOf(returns, prices) ==
    /\ Len(returns) = Len(prices)
    /\ \A i \in 1..Len(prices) :
           IF i = 1 THEN returns[i].na
           ELSE NumEq(returns[i], SimpleReturn(prices, i))

\* C25: calculate_returns(prices) and the gold_return and sp500_return columns
\* of process_data hold, at every position after the first, the change from
\* the price before in percent of that price, and nothing at the first
\* position; for 100, 101, ..., 109 the return on day 2 is 1 percent
C25_SimpleDailyReturn ==
    /\ (sout.op = "calculate_returns" /\ sout.return_type = "simple") =>
           /\ ~sout.raised
           /\ SimpleReturnsOf(sout.series, sout.returns)
           /\ sout.returns = SeriesA => sout.series[2] = Num(1, 1)
    /\ pout.some =>
           /\ SimpleReturnsOf(Column(pout.df, "gold_return"), Column(pout.df, "gold"))
           /\ SimpleReturnsOf(Column(pout.df, "sp500_return"), Column(pout.df, "sp500"))

\* both computations were made: on 100, 101, ..., 109, and on a dataset whose
\* gold price doubles on the second day
C25_Witness ==
    /\ sout.op = "calculate_returns"
    /\ sout.return_type = "simple"
    /\ sout.returns = SeriesA
    /\ sout.series[2] = Num(1, 1)
    /\ sout.series[10] = Num(100, 108)
    /\ pout.some
    /\ Len(pout.df) >= 2
    /\ pout.df[1].gold = Price(1)
    /\ pout.df[2].gold = Price(2)
    /\ pout.df[2].gold_return = Num(100, 1)

IsZero(x) == ~x.na /\ x.num = 0

\* the float is 0
ZeroValue(v) == v.kind = "finite" /\ (IsZero(v.coef) \/ IsZero(v.root))

\* the returns of a price series that never changes
ReturnsOfConstantPrices(returns) ==
    /\ Len(returns) >= 1
    /\ \A i \in 1..Len(returns) : IF i = 1 THEN returns[i].na ELSE IsZero(returns[i])

SharpeOfZeroVolatility ==
    sout.op = "calculate_sharpe_ratio" /\ IsZero(Var(sout.returns))

BetaOfZeroMarketVariance ==
    sout.op = "calculate_beta" /\ IsZero(Var(sout.other))

FrontierOfZeroVolatility ==
    sout.op = "frontier" /\ IsZero(PortfolioVariance(sout.weight, sout.returns, sout.other))

\* C24: the Sharpe ratio with zero volatility, beta with zero market variance
\* and the Sharpe ratio of a sampled portfolio with zero volatility are 0; the
\* volatility and the Sharpe ratio of a constant price series are 0
C24_ZeroDenominatorGivesZero ==
    /\ SharpeOfZeroVolatility => ZeroValue(sout.value)
    /\ BetaOfZeroMarketVariance => ZeroValue(sout.value)
    /\ FrontierOfZeroVolatility => ZeroValue(sout.value)
    /\ (sout.op \in {"calculate_volatility", "calculate_sharpe_ratio"}
        /\ ReturnsOfConstantPrices(sout.returns)) => ZeroValue(sout.value)

\* what the code does: the two guarded ratios of StatsCalculator are 0 on a
\* zero denominator, and a constant series of three prices or more has
\* volatility 0 and Sharpe ratio 0
GuardedRatiosGiveZero ==
    /\ SharpeOfZeroVolatility => sout.value = IntZero
    /\ BetaOfZeroMarketVariance => sout.value = IntZero
    /\ (sout.op \in {"calculate_volatility", "calculate_sharpe_ratio"}
        /\ ReturnsOfConstantPrices(sout.returns)
        /\ Len(sout.returns) >= 3) => ZeroValue(sout.value)

\* the sampling loop divides by a zero p_std: the Sharpe ratio it stores is
\* an infinity or NaN
FrontierNeverZeroOnZeroVolatility ==
    FrontierOfZeroVolatility => sout.value.kind \in {"inf", "-inf", "nan"}

FrontierInfinite == FrontierOfZeroVolatility /\ sout.value.kind = "inf"

\* one return only: its standard deviation is NaN
ConstantPairUndefined ==
    /\ sout.op = "calculate_sharpe_ratio"
    /\ sout.returns = <<NaNum, Num(0, 1)>>
    /\ sout.value = NotANumber

\* ------------------------------------------------------ cache info claims
\* cache_dir with the metadata record only, the datasets gone
MetadataAlone(f) == [csv |-> AbsentFile, parquet |-> AbsentFile, meta |-> f.meta]

\* what the metadata record says at time t: whether it is there and readable,
\* how old the entry is, how long it remains valid
ReportOf(meta, t) ==
    IF meta.st # "ok"
    THEN [exists |-> FALSE, is_valid |-> FALSE, age |-> 0, remaining |-> 0]
    ELSE [exists |-> TRUE,
          is_valid |-> (Get(meta.json, "expires_at", NotIso).iso
                        /\ t < Get(meta.json, "expires_at", NotIso).t),
          age |-> IF Get(meta.json, "cached_at", NotIso).iso
                     /\ Get(meta.json, "expires_at", NotIso).iso
                  THEN t - Get(meta.json, "cached_at", NotIso).t ELSE 0,
          remaining |-> IF Get(meta.json, "cached_at", NotIso).iso
                           /\ Get(meta.json, "expires_at", NotIso).iso
                           /\ Get(meta.json, "expires_at", NotIso).t > t
                        THEN Get(meta.json, "expires_at", NotIso).t - t ELSE 0]

\* C26: get_cache_info reports existence, age and remaining validity from the
\* metadata record alone, whatever the dataset files hold, and leaves the
\* three files as they are
C26_InfoFromMetadataAlone ==
    [][lastOp' = "get_cache_info" =>
           /\ csv_cache' = csv_cache
           /\ parquet_cache' = parquet_cache
           /\ metadata_file' = metadata_file
           /\ ret'.info = GetCacheInfoResult(MetadataAlone(Files), now)
           /\ ret'.info.exists = ReportOf(metadata_file, now).exists
           /\ ret'.info.is_valid = ReportOf(metadata_file, now).is_valid
           /\ ret'.info.age_info.age_hours = ReportOf(metadata_file, now).age
           /\ ret'.info.age_info.time_remaining_hours
                  = ReportOf(metadata_file, now).remaining]_vars

\* get_cache_info reported a valid entry of some age while the Parquet file
\* was unreadable
C26_Witness ==
    /\ lastOp = "get_cache_info"
    /\ ret.info.exists
    /\ ret.info.is_valid
    /\ ret.info.age_info.some
    /\ ret.info.age_info.age_hours > 0
    /\ ret.info.age_info.time_remaining_hours > 0
    /\ parquet_cache.st # "ok"

\* the dataset load_cache returns came from the save that wrote the metadata
\* it returns with it
OwnMetadata(l) == l.is_valid => Get(l.metadata, "rows", 0) = Len(l.data.df)

\* the tuple load_cache returns: the dataset, is_valid, the metadata
Returned(l) == <<l.data, l.is_valid, l.metadata>>

\* C27: a save_cache call that returns False leaves the cache as it was: a
\* load_cache after it returns what a load_cache before it would have
\* returned, and never a dataset with the metadata of another save
C27_FailedSaveLeavesCache ==
    [][(lastOp' = "save_cache" /\ ~ret'.ok) =>
           /\ Returned(LoadCacheResult(Files', now')) = Returned(LoadCacheResult(Files, now))
           /\ OwnMetadata(LoadCacheResult(Files', now'))]_vars

\* load_cache returned a dataset of other rows than its metadata counts: the
\* Parquet file of a save that failed on the metadata, under the record of
\* the save before
MixedEntryLoaded ==
    /\ lastOp = "load_cache"
    /\ ret.load.is_valid
    /\ Get(ret.load.metadata, "rows", 0) # Len(ret.load.data.df)

\* a save that failed on the Parquet file: the entry cached before is lost
EntryLostByFailedSave ==
    /\ lastOp = "save_cache"
    /\ ~ret.ok
    /\ parquet_cache.st = "corrupt"
    /\ metadata_file.st = "ok"
    /\ IsCacheValid(metadata_file.json, now)
    /\ ~LoadCacheResult(Files, now).is_valid

\* C28: get_cache_info and load_cache agree at every moment: get_cache_info
\* reports exists and is_valid exactly when load_cache returns is_valid with
\* a dataset
C28_InfoAgreesWithLoad ==
    (GetCacheInfoResult(Files, now).exists /\ GetCacheInfoResult(Files, now).is_valid)
        <=> (LoadCacheResult(Files, now).is_valid /\ LoadCacheResult(Files, now).data.some)

\* what holds: an entry load_cache accepts is one get_cache_info calls valid
LoadValidImpliesInfoValid ==
    LoadCacheResult(Files, now).is_valid =>
        /\ LoadCacheResult(Files, now).data.some
        /\ GetCacheInfoResult(Files, now).exists
        /\ GetCacheInfoResult(Files, now).is_valid

\* get_cache_info calls the entry valid, load_cache finds no readable dataset
InfoValidLoadMisses ==
    /\ lastOp = "get_cache_info"
    /\ ret.info.exists
    /\ ret.info.is_valid
    /\ ~LoadCacheResult(Files, now).is_valid
    /\ ~LoadCacheResult(Files, now).data.some

\* ----------------------------------------------------------- report claims
\* the names of the checks validate_data runs
CheckNames == {Checks(vdf, today)[i].name : i \in 1..Len(Checks(vdf, today))}

TimesIn(name, list) == Cardinality({i \in 1..Len(list) : list[i] = name})

\* each check is in exactly one of the three lists, once
EachCheckInOneList ==
    /\ Cardinality(CheckNames) = 10
    /\ \A name \in CheckNames :
           TimesIn(name, vret.results.passed) + TimesIn(name, vret.results.failed)
               + TimesIn(name, vret.results.warnings) = 1
    /\ Len(vret.results.passed) + Len(vret.results.failed)
           + Len(vret.results.warnings) = 10

SummaryCountsLists ==
    /\ vret.results.summary.passed = Len(vret.results.passed)
    /\ vret.results.summary.failed = Len(vret.results.failed)
    /\ vret.results.summary.warnings = Len(vret.results.warnings)

\* C29: in the report of validate_data each of the ten checks is in exactly
\* one of the lists passed, failed and warnings, the summary counts the
\* lists, and summary.total_checks is the number of checks run, ten
C29_ReportConsistent ==
    vret.called =>
        /\ EachCheckInOneList
        /\ SummaryCountsLists
        /\ vret.results.summary.total_checks = 10

\* what the code does: total_checks leaves the warnings out
TotalChecksSkipsWarnings ==
    vret.called =>
        /\ EachCheckInOneList
        /\ SummaryCountsLists
        /\ vret.results.summary.total_checks = 10 - Len(vret.results.warnings)

SevenChecksCounted ==
    vret.called /\ NWarnings = 3 /\ vret.results.summary.total_checks = 7

\* ------------------------------------------- DataFetcher.get_data, get_summary
NoSeries == [some |-> FALSE, rows |-> 0]
SomeSeries(rows) == [some |-> TRUE, rows |-> rows]

\* faulty variant: the ticker is looked up in self.tickers, not in self.data
GetDataOfRequested(ticker) ==
    IF data.some /\ data.map # EmptyDict /\ ticker \in Requested
    THEN SomeSeries(Get(data.map, ticker, 0))
    ELSE NoSeries

\* "if self.data and ticker in self.data: return self.data[ticker]"; an empty
\* dict is as false as None
GetData(ticker) ==
    IF data.some /\ data.map # EmptyDict /\ ticker \in DOMAIN data.map
    THEN SomeSeries(data.map[ticker])
    ELSE NoSeries

\* get_summary: the three counts and the list of fetched tickers
GetSummary ==
    [total_tickers_requested |-> Len(tickers),
     tickers_fetched |-> IF data.some /\ data.map # EmptyDict
                         THEN Cardinality(DOMAIN data.map) ELSE 0,
     failed_tickers |-> Len(errors),
     tickers_list |-> IF data.some /\ data.map # EmptyDict
                      THEN DOMAIN data.map ELSE {},
     errors |-> errors]

\* C30: once a fetch_all call has returned, the fetcher's state is that call's
\* result: get_data(t) gives a series iff t yielded one in this call (so None
\* for every symbol after a call that failed overall), the series is the one
\* just downloaded, and in get_summary tickers_fetched + failed_tickers equals
\* total_tickers_requested.
C30_StateIsLastFetch ==
    fpc = "done" =>
        /\ data = fret.data
        /\ errors = fret.failed
        /\ \A t \in Symbols :
               /\ GetData(t).some <=> (t \in Requested /\ Yielded(t))
               /\ GetData(t).some =>
                      GetData(t).rows = ended[t].rows - ended[t].nans
        /\ GetSummary.tickers_fetched + GetSummary.failed_tickers
               = GetSummary.total_tickers_requested
        /\ GetSummary.tickers_list = {t \in Requested : Yielded(t)}

\* a second call has ended with the first ticker fetched and the second failed
C30_Witness ==
    /\ fpc = "done"
    /\ nfetch = 2
    /\ Len(tickers) = 2
    /\ GetData(tickers[1]).some
    /\ ~GetData(tickers[2]).some
    /\ GetSummary.tickers_fetched = 1
    /\ GetSummary.failed_tickers = 1

\* no call replaces an earlier call's data by None (violated: a call that
\* fails overall after a successful one does)
FetchedDataIsKept ==
    [][(data.some /\ fpc' = "done") => data'.some]_vars

\* a second call has ended in overall failure: nothing is left to get
NothingLeftAfterFailure ==
    /\ fpc = "done"
    /\ nfetch = 2
    /\ Len(tickers) = 2
    /\ \A t \in Symbols : ~GetData(t).some
    /\ GetSummary.failed_tickers = 2

====
